---- MODULE Spec2Model ----
(***************************************************************************)
(* Tableau tuples of sage.combinat.tableau_tuple: the shape-indexed and    *)
(* residue-indexed enumerators, the checked constructors and add_entry.    *)
(*                                                                         *)
(* Data: a partition is a sequence of weakly decreasing positive integers, *)
(* a shape (PartitionTuple) a sequence of partitions, a tableau tuple a    *)
(* sequence of components, each a sequence of rows, each a sequence of     *)
(* entries.  Python lists that the code indexes from 0 (tab, cols, mins,   *)
(* clen, cclen) are functions on 0..len-1 and keep the code's indices.     *)
(* A value that a step uses several times is bound through a singleton set *)
(* (\E x \in {e} : ..., or CHOOSE res \in {F(x) : x \in {e}} : TRUE), which *)
(* is LET x == e IN ... with e computed once.                              *)
(***************************************************************************)
EXTENDS Integers, Sequences, FiniteSets, TLC

VARIABLES
    \* a traversal of a shape enumerator
    kind,       \* which shape enumerator is traversed: "std" or "rowstd"
    mu,         \* self.shape() of the enumerator
    pc,         \* position of the generator: "new", "first", "loop", "done", "error"
    tab,        \* __iter__'s local tab: the current flat list (0-based)
    cols,       \* __iter__'s local cols (0-based, n+1 entries)
    mins,       \* __iter__'s local mins (0-based, n entries)
    lin,        \* rowstd: the linear extensions the poset's iterator still holds
    yielded,    \* the tableaux yielded so far by this traversal, in order
    \* a checked construction
    cons_cls,    \* "StandardTableauTuple" or "RowStandardTableauTuple"
    cons_t,      \* the argument t
    cons_result, \* "pending", "ok", or the message of the ValueError raised
    cons_obj,    \* the object returned, "None" while there is none
    \* a call of add_entry
    add_t,       \* self
    add_cell,    \* the argument cell = <<k, r, c>>
    add_m,       \* the argument m
    add_result,  \* "pending", "ok" or "IndexError"
    add_out,     \* the tableau returned, "None" while there is none
    \* a traversal of a residue enumerator
    res_cls,     \* "residue" (StandardTableaux_residue) or "residue_shape"
    res_e,       \* self._quantum_characteristic
    res_mc,      \* self._multicharge
    res_seq,     \* self._residue: the target residues, res_seq[i] the one of i
    res_shape,   \* self._shape ("None" for StandardTableaux_residue)
    res_frames,  \* the suspended generators, res_frames[j] the one of size j
    res_pc,      \* "run", or "done" once next() has raised StopIteration
    res_yielded, \* the tableaux yielded so far, in order
    \* calls of methods on a tableau tuple
    m_self,      \* the tableau tuple t: its class, its parent and its list
    m_obj,       \* the object the next call is made on (t, or what a call returned)
    m_calls,     \* the methods called so far, in order
    m_args,      \* the arguments of the last call
    m_out        \* what the last call returned or raised

shapeVars == <<kind, mu, pc, tab, cols, mins, lin, yielded>>

consVars == <<cons_cls, cons_t, cons_result, cons_obj>>

addVars == <<add_t, add_cell, add_m, add_result, add_out>>

resVars ==
    <<res_cls, res_e, res_mc, res_seq, res_shape, res_frames, res_pc, res_yielded>>

methVars == <<m_self, m_obj, m_calls, m_args, m_out>>

vars == <<shapeVars, consVars, addVars, resVars, methVars>>

\* the parts that a specification does not run stay idle
ShapeIdle ==
    /\ kind = "idle" /\ mu = "idle" /\ pc = "idle" /\ tab = "idle"
    /\ cols = "idle" /\ mins = "idle" /\ lin = "idle" /\ yielded = "idle"

ConsIdle ==
    /\ cons_cls = "idle" /\ cons_t = "idle"
    /\ cons_result = "idle" /\ cons_obj = "idle"

AddIdle ==
    /\ add_t = "idle" /\ add_cell = "idle" /\ add_m = "idle"
    /\ add_result = "idle" /\ add_out = "idle"

ResIdle ==
    /\ res_cls = "idle" /\ res_e = "idle" /\ res_mc = "idle" /\ res_seq = "idle"
    /\ res_shape = "idle" /\ res_frames = "idle" /\ res_pc = "idle"
    /\ res_yielded = "idle"

MethIdle ==
    /\ m_self = "idle" /\ m_obj = "idle" /\ m_calls = "idle"
    /\ m_args = "idle" /\ m_out = "idle"

(***************************************************************************)
(* Bounds of the model.                                                    *)
(***************************************************************************)
MaxLevel == 3
MaxSize == 4

(***************************************************************************)
(* Arithmetic and sequence helpers.                                        *)
(***************************************************************************)
RECURSIVE SumSeq(_)
SumSeq(s) == IF Len(s) = 0 THEN 0 ELSE s[1] + SumSeq(Tail(s))

RECURSIVE factorial(_)
factorial(n) == IF n <= 0 THEN 1 ELSE n * factorial(n - 1)

RECURSIVE prod(_)
prod(s) == IF Len(s) = 0 THEN 1 ELSE s[1] * prod(Tail(s))

Range(f) == {f[x] : x \in DOMAIN f}

SetMax(S) == CHOOSE x \in S : \A y \in S : y <= x

SetMin(S) == CHOOSE x \in S : \A y \in S : x <= y

RECURSIVE Flatten(_)
Flatten(ss) == IF Len(ss) = 0 THEN <<>> ELSE ss[1] \o Flatten(Tail(ss))

(***************************************************************************)
(* Partitions and partition tuples.                                        *)
(***************************************************************************)
IsPartition(s) ==
    \A i \in 1..Len(s) : s[i] >= 1 /\ (i < Len(s) => s[i] >= s[i + 1])

Partitions ==
    {s \in UNION {[1..k -> 1..MaxSize] : k \in 0..MaxSize} :
        IsPartition(s) /\ SumSeq(s) <= MaxSize}

ShapeSize(m) == SumSeq([c \in 1..Len(m) |-> SumSeq(m[c])])

\* the partition tuples of level l and size at most n
RECURSIVE PartitionTuplesUpTo(_, _)
PartitionTuplesUpTo(l, n) ==
    IF l = 0 THEN {<<>>}
    ELSE UNION {{Append(m, nu) : nu \in {p \in Partitions : SumSeq(p) <= n - ShapeSize(m)}} :
                    m \in PartitionTuplesUpTo(l - 1, n)}

Shapes == UNION {PartitionTuplesUpTo(l, MaxSize) : l \in 2..MaxLevel}

\* the shape of a tableau tuple: the row lengths of every component
shape(t) == [c \in 1..Len(t) |-> [r \in 1..Len(t[c]) |-> Len(t[c][r])]]

\* all entries of a tableau tuple, component by component and row by row
entries(t) == Flatten([c \in 1..Len(t) |-> Flatten(t[c])])

(***************************************************************************)
(* StandardTableauTuples_shape.__iter__: the tables clen and cclen, the    *)
(* inflation of a flat list, and the initial cols and mins.                *)
(***************************************************************************)
clen(m) ==
    [c \in 0..Len(m) |-> SumSeq([k \in 1..c |-> SumSeq(m[k])])]

cclen(m) ==
    [c \in 0..(Len(m) - 1) |->
        [r \in 0..Len(m[c + 1]) |-> SumSeq([k \in 1..r |-> m[c + 1][k]])]]

\* the variant that forgets the row offset cclen[c][r] inside a component
tableau_from_list_no_row_offset(m, tb) ==
    [c \in 1..Len(m) |->
        [r \in 1..Len(m[c]) |->
            [j \in 1..m[c][r] |-> tb[clen(m)[c - 1] + j - 1]]]]

tableau_from_list(m, tb) ==
    [c \in 1..Len(m) |->
        [r \in 1..Len(m[c]) |->
            [j \in 1..m[c][r] |->
                tb[clen(m)[c - 1] + cclen(m)[c - 1][r - 1] + j - 1]]]]

InitialTab(m) == [i \in 0..(ShapeSize(m) - 1) |-> i + 1]

\* the variant that numbers the columns from the first component on
ColOffset_from_first(m, c) ==
    SumSeq([k \in 1..(c - 1) |-> IF Len(m[k]) = 0 THEN 0 ELSE m[k][1]])

\* offset of component c (1-based) in the numbering of the columns: the
\* components after c, each contributing the length of its first row
ColOffset(m, c) ==
    SumSeq([k \in 1..(Len(m) - c) |->
                IF Len(m[c + k]) = 0 THEN 0 ELSE m[c + k][1]])

\* the cell <<c, row, col>> (c 1-based, row and col 0-based) of flat position i
CellOfPosition(m, i) ==
    CHOOSE cell \in (1..Len(m)) \X (0..MaxSize + 1) \X (0..MaxSize + 1) :
        /\ cell[2] < Len(m[cell[1]])
        /\ cell[3] < m[cell[1]][cell[2] + 1]
        /\ clen(m)[cell[1] - 1] + cclen(m)[cell[1] - 1][cell[2]] + cell[3] = i

InitialCols(m) ==
    [v \in 0..ShapeSize(m) |->
        IF v = 0 THEN 0
        ELSE LET cell == CellOfPosition(m, v - 1)
             IN  cell[3] + ColOffset(m, cell[1])]

InitialMins(m) ==
    [i \in 0..(ShapeSize(m) - 1) |->
        LET cell == CellOfPosition(m, i) IN cell[2] + cell[3]]

\* component[i]: the 1-based component of flat position i
component(m) ==
    [i \in 0..(ShapeSize(m) - 1) |->
        CHOOSE c \in 1..Len(m) : clen(m)[c - 1] <= i /\ i < clen(m)[c]]

\* list.index on a flat list
Index(tb, x) == SetMin({i \in DOMAIN tb : tb[i] = x})

(***************************************************************************)
(* max_row_in_component(tab, r): 0 stands for falling out of the while     *)
(* loop (Python's implicit None).                                          *)
(***************************************************************************)
\* the variant that returns comp[0], the first candidate, for comp[-1]
RECURSIVE MaxRowFrom_first(_, _, _, _, _)
MaxRowFrom_first(m, tb, cl, r, c) ==
    IF c <= 0 THEN 0
    ELSE LET comp == {i \in clen(m)[c - 1]..(clen(m)[c] - 1) :
                        tb[i] < r /\ cl[tb[i]] > cl[r]}
         IN  IF comp = {} THEN MaxRowFrom_first(m, tb, cl, r, c - 1)
             ELSE tb[SetMin(comp)]

\* the variant that returns the largest candidate, max(comp), for comp[-1]
RECURSIVE MaxRowFrom_largest(_, _, _, _, _)
MaxRowFrom_largest(m, tb, cl, r, c) ==
    IF c <= 0 THEN 0
    ELSE LET comp == {i \in clen(m)[c - 1]..(clen(m)[c] - 1) :
                        tb[i] < r /\ cl[tb[i]] > cl[r]}
         IN  IF comp = {} THEN MaxRowFrom_largest(m, tb, cl, r, c - 1)
             ELSE SetMax({tb[i] : i \in comp})

RECURSIVE MaxRowFrom(_, _, _, _, _)
MaxRowFrom(m, tb, cl, r, c) ==
    IF c <= 0 THEN 0
    ELSE LET comp == {i \in clen(m)[c - 1]..(clen(m)[c] - 1) :
                        tb[i] < r /\ cl[tb[i]] > cl[r]}
         IN  IF comp = {} THEN MaxRowFrom(m, tb, cl, r, c - 1)
             ELSE tb[SetMax(comp)]

\* the variant that looks in the component of r only
max_row_in_component_same_only(m, tb, cl, r) ==
    LET c == component(m)[Index(tb, r)]
        comp == {i \in clen(m)[c - 1]..(clen(m)[c] - 1) :
                    tb[i] < r /\ cl[tb[i]] > cl[r]}
    IN  IF comp = {} THEN 0 ELSE tb[SetMax(comp)]

max_row_in_component(m, tb, cl, r) ==
    MaxRowFrom(m, tb, cl, r, component(m)[Index(tb, r)])

(***************************************************************************)
(* The descent: the smallest r in 1..n with cols[r-1] > cols[r];           *)
(* len(cols) = n + 1 when there is none.                                   *)
(***************************************************************************)
\* the variant that takes the largest such r
Descent_last(cl) ==
    LET n == Cardinality(DOMAIN cl) - 1
        ds == {r \in 1..n : cl[r - 1] > cl[r]}
    IN  IF ds = {} THEN n + 1 ELSE SetMax(ds)

Descent(cl) ==
    LET n == Cardinality(DOMAIN cl) - 1
        ds == {r \in 1..n : cl[r - 1] > cl[r]}
    IN  IF ds = {} THEN n + 1 ELSE SetMin(ds)

(***************************************************************************)
(* The leftmost index where t can go; n when the scan runs off the list    *)
(* (mins[n] would raise IndexError).                                       *)
(***************************************************************************)
\* the variant that also skips the position of r itself (>= for >)
LeftmostIndex_skip_r(tb, mn, r, changed, t) ==
    LET n == Cardinality(DOMAIN tb)
        ok == {i \in 0..(n - 1) :
                  ~(t <= mn[i] \/ tb[i] >= r \/ i \in changed)}
    IN  IF ok = {} THEN n ELSE SetMin(ok)

\* the variant that does not pass over the positions of the values above r
LeftmostIndex_over_larger(tb, mn, r, changed, t) ==
    LET n == Cardinality(DOMAIN tb)
        ok == {i \in 0..(n - 1) : ~(t <= mn[i] \/ i \in changed)}
    IN  IF ok = {} THEN n ELSE SetMin(ok)

LeftmostIndex(tb, mn, r, changed, t) ==
    LET n == Cardinality(DOMAIN tb)
        ok == {i \in 0..(n - 1) :
                  ~(t <= mn[i] \/ tb[i] > r \/ i \in changed)}
    IN  IF ok = {} THEN n ELSE SetMin(ok)

\* the for loop over t = 1..r-1, from t on (i is bound through a singleton
\* set, so that it is computed once per pass)
RECURSIVE Reinsert(_, _, _, _, _, _, _, _)
Reinsert(tb, cl, mn, r, t, new_tab, new_cols, changed) ==
    IF t >= r THEN [err |-> FALSE, tab |-> new_tab, cols |-> new_cols]
    ELSE CHOOSE res \in
            {IF i >= Cardinality(DOMAIN tb)
             THEN [err |-> TRUE, tab |-> new_tab, cols |-> new_cols]
             ELSE Reinsert(tb, cl, mn, r, t + 1,
                           [new_tab EXCEPT ![i] = t],
                           [new_cols EXCEPT ![t] = cl[tb[i]]],
                           changed \cup {i}) :
                i \in {LeftmostIndex(tb, mn, r, changed, t)}} : TRUE

\* one pass of the body of the while loop, for the descent r
AdvanceStep(m, tb, cl, mn, r) ==
    CHOOSE res \in
        {IF s \notin Range(tb)
         THEN [err |-> TRUE, tab |-> tb, cols |-> cl]
         ELSE Reinsert(tb, cl, mn, r, 1,
                       [tb EXCEPT ![Index(tb, s)] = r],
                       [cl EXCEPT ![r] = cl[s]],
                       {Index(tb, s)}) :
            s \in {max_row_in_component(m, tb, cl, r)}} : TRUE

\* cols and mins as the running generator holds them
CurCols == IF pc = "first" THEN InitialCols(mu) ELSE cols
CurMins == IF pc = "first" THEN InitialMins(mu) ELSE mins

(***************************************************************************)
(* The traversal of StandardTableauTuples_shape(mu): one action per        *)
(* resumption of the generator.                                            *)
(***************************************************************************)
\* first next(): yields the initial tableau
StdStart ==
    /\ kind = "std" /\ pc = "new"
    /\ tab' = InitialTab(mu)
    /\ yielded' = Append(yielded, tableau_from_list(mu, InitialTab(mu)))
    /\ pc' = "first"
    /\ UNCHANGED <<kind, mu, cols, mins, lin, consVars, addVars, resVars, methVars>>

\* a next() that finds a descent: yields the next tableau, or raises
StdAdvance ==
    /\ kind = "std" /\ pc \in {"first", "loop"}
    /\ \E cl \in {CurCols} : \E mn \in {CurMins} : \E r \in {Descent(cl)} :
        /\ r < Cardinality(DOMAIN cl)
        /\ \E res \in {AdvanceStep(mu, tab, cl, mn, r)} :
            IF res.err
            THEN /\ pc' = "error"
                 /\ cols' = cl /\ mins' = mn
                 /\ UNCHANGED <<tab, yielded>>
            ELSE /\ pc' = "loop"
                 /\ tab' = res.tab
                 /\ cols' = res.cols
                 /\ mins' = mn
                 /\ yielded' = Append(yielded, tableau_from_list(mu, res.tab))
    /\ UNCHANGED <<kind, mu, lin, consVars, addVars, resVars, methVars>>

\* a next() that finds no descent: the generator returns
StdFinish ==
    /\ kind = "std" /\ pc \in {"first", "loop"}
    /\ \E cl \in {CurCols} :
        /\ Descent(cl) = Cardinality(DOMAIN cl)
        /\ pc' = "done"
        /\ cols' = cl /\ mins' = CurMins
    /\ UNCHANGED <<kind, mu, tab, lin, yielded, consVars, addVars, resVars, methVars>>

(***************************************************************************)
(* The closed-form cardinalities of the two shape enumerators.             *)
(***************************************************************************)
\* StandardTableaux(nu).cardinality(): the hook length formula
HookLength(nu, i, j) ==
    (nu[i] - j) + Cardinality({k \in (i + 1)..Len(nu) : nu[k] >= j}) + 1

RECURSIVE ProdOver(_, _)
ProdOver(S, f) ==
    IF S = {} THEN 1
    ELSE LET x == CHOOSE y \in S : TRUE IN f[x] * ProdOver(S \ {x}, f)

CellsOfPartition(nu) == {x \in (1..Len(nu)) \X (1..MaxSize + 1) : x[2] <= nu[x[1]]}

StandardTableaux_cardinality(nu) ==
    factorial(SumSeq(nu)) \div
        ProdOver(CellsOfPartition(nu),
                 [x \in CellsOfPartition(nu) |-> HookLength(nu, x[1], x[2])])

\* the variant that leaves out the multinomial factor n! / prod(|nu|!)
StandardTableauTuples_shape_cardinality_no_multinomial(m) ==
    prod([c \in 1..Len(m) |-> StandardTableaux_cardinality(m[c])])

\* StandardTableauTuples_shape.cardinality(): the product is one of exact
\* rationals, so the value is the quotient of the two integer products
StandardTableauTuples_shape_cardinality(m) ==
    (factorial(ShapeSize(m))
        * prod([c \in 1..Len(m) |-> StandardTableaux_cardinality(m[c])]))
    \div prod([c \in 1..Len(m) |-> factorial(SumSeq(m[c]))])

\* RowStandardTableauTuples_shape.cardinality()
RowStandardTableauTuples_shape_cardinality(m) ==
    factorial(ShapeSize(m))
    \div prod(Flatten([c \in 1..Len(m) |->
                          [r \in 1..Len(m[c]) |-> factorial(m[c][r])]]))

(***************************************************************************)
(* RowStandardTableauTuples_shape.__iter__: the poset of the rows, its     *)
(* linear extensions, and the tableau of each.                             *)
(***************************************************************************)
\* the variant that forgets the offset clen[c] of the component
relations_no_clen(m) ==
    {<<cclen(m)[c][r] + i + 1, cclen(m)[c][r] + i + 2>> :
        <<c, r, i>> \in
            {x \in (0..(Len(m) - 1)) \X (0..MaxSize) \X (0..MaxSize) :
                x[2] < Len(m[x[1] + 1]) /\ x[3] < m[x[1] + 1][x[2] + 1] - 1}}

\* relations: position p before position p + 1 inside every row (1-based)
relations(m) ==
    {<<clen(m)[c] + cclen(m)[c][r] + i + 1, clen(m)[c] + cclen(m)[c][r] + i + 2>> :
        <<c, r, i>> \in
            {x \in (0..(Len(m) - 1)) \X (0..MaxSize) \X (0..MaxSize) :
                x[2] < Len(m[x[1] + 1]) /\ x[3] < m[x[1] + 1][x[2] + 1] - 1}}

Perms(n) == {p \in [1..n -> 1..n] : \A i, j \in 1..n : p[i] = p[j] => i = j}

PositionIn(p, x) == CHOOSE j \in 1..Len(p) : p[j] = x

\* x may come next after prefix: it is not in it, and everything below it is
MayFollow(rel, prefix, x) ==
    /\ x \notin Range(prefix)
    /\ \A pr \in rel : pr[2] = x => pr[1] \in Range(prefix)

\* the linear extensions of (1..n, rel) that start with prefix and go on
\* with an element >= x, in the order in which the iterator hands them out
RECURSIVE ExtensionsFrom(_, _, _, _)
ExtensionsFrom(n, rel, prefix, x) ==
    IF Len(prefix) = n THEN <<prefix>>
    ELSE IF x > n THEN <<>>
    ELSE (IF MayFollow(rel, prefix, x)
          THEN ExtensionsFrom(n, rel, Append(prefix, x), 1)
          ELSE <<>>)
         \o ExtensionsFrom(n, rel, prefix, x + 1)

\* Poset((range(1, n+1), relations)).linear_extensions(), as a list
linear_extensions(m) ==
    CHOOSE res \in
        {ExtensionsFrom(ShapeSize(m), rel, <<>>, 1) : rel \in {relations(m)}} : TRUE

\* Permutation(lin).inverse(), as a 0-based flat list
PermutationInverse(p) == [i \in 0..(Len(p) - 1) |-> PositionIn(p, i + 1)]

\* the extensions the running generator has not taken yet
Remaining == IF pc = "new" THEN linear_extensions(mu) ELSE lin

\* a next() for which the poset has another linear extension
RowAdvance ==
    /\ kind = "rowstd" /\ pc \in {"new", "loop"}
    /\ \E rem \in {Remaining} :
        /\ rem # <<>>
        /\ \E linear_tab \in {PermutationInverse(Head(rem))} :
            /\ tab' = linear_tab
            /\ yielded' = Append(yielded, tableau_from_list(mu, linear_tab))
        /\ lin' = Tail(rem)
    /\ pc' = "loop"
    /\ UNCHANGED <<kind, mu, cols, mins, consVars, addVars, resVars, methVars>>

\* a next() after the last linear extension: the generator returns
RowFinish ==
    /\ kind = "rowstd" /\ pc \in {"new", "loop"}
    /\ Remaining = <<>>
    /\ pc' = "done"
    /\ UNCHANGED <<kind, mu, tab, cols, mins, lin, yielded, consVars, addVars, resVars, methVars>>

ShapeInit ==
    /\ kind \in {"std", "rowstd"}
    /\ mu \in Shapes
    /\ pc = "new"
    /\ tab = <<>> /\ cols = <<>> /\ mins = <<>> /\ lin = <<>>
    /\ yielded = <<>>
    /\ ConsIdle /\ AddIdle /\ ResIdle /\ MethIdle

ShapeNext == StdStart \/ StdAdvance \/ StdFinish \/ RowAdvance \/ RowFinish

SpecShape == ShapeInit /\ [][ShapeNext]_vars

\* a full traversal: the consumer keeps asking for the next tableau
FairSpecShape == SpecShape /\ WF_vars(ShapeNext)

(***************************************************************************)
(* Two traversals of one enumerator StandardTableauTuples_shape(mu).       *)
(* __iter__ is a generator function: every call makes a generator with its *)
(* own locals tab, cols and mins, and reads self only for its shape.  Here *)
(* pc and yielded are indexed by the traversal and tab, cols and mins by   *)
(* the generator frame.                                                    *)
(***************************************************************************)
TwoMaxLevel == 2
TwoMaxSize == 3

Traversals == {1, 2}

\* the variant in which the traversals work on the same lists
generator_frame_shared(i) == 1

\* the frame that holds the locals of traversal i
generator_frame(i) == i

\* first next() of traversal i: tab, cols and mins are set up and the
\* initial tableau is yielded
TwoStart(i) ==
    /\ kind = "two" /\ pc[i] = "new"
    /\ \E f \in {generator_frame(i)} :
        /\ tab' = [tab EXCEPT ![f] = InitialTab(mu)]
        /\ cols' = [cols EXCEPT ![f] = InitialCols(mu)]
        /\ mins' = [mins EXCEPT ![f] = InitialMins(mu)]
    /\ yielded' = [yielded EXCEPT ![i] = Append(@, tableau_from_list(mu, InitialTab(mu)))]
    /\ pc' = [pc EXCEPT ![i] = "loop"]
    /\ UNCHANGED <<kind, mu, lin, consVars, addVars, resVars, methVars>>

\* a next() of traversal i that finds a descent
TwoAdvance(i) ==
    /\ kind = "two" /\ pc[i] = "loop"
    /\ \E f \in {generator_frame(i)} : \E r \in {Descent(cols[f])} :
        /\ r < Cardinality(DOMAIN cols[f])
        /\ \E res \in {AdvanceStep(mu, tab[f], cols[f], mins[f], r)} :
            IF res.err
            THEN /\ pc' = [pc EXCEPT ![i] = "error"]
                 /\ UNCHANGED <<tab, cols, yielded>>
            ELSE /\ pc' = pc
                 /\ tab' = [tab EXCEPT ![f] = res.tab]
                 /\ cols' = [cols EXCEPT ![f] = res.cols]
                 /\ yielded' = [yielded EXCEPT
                                  ![i] = Append(@, tableau_from_list(mu, res.tab))]
    /\ UNCHANGED <<kind, mu, mins, lin, consVars, addVars, resVars, methVars>>

\* a next() of traversal i that finds no descent: the generator returns
TwoFinish(i) ==
    /\ kind = "two" /\ pc[i] = "loop"
    /\ \E f \in {generator_frame(i)} :
            Descent(cols[f]) = Cardinality(DOMAIN cols[f])
    /\ pc' = [pc EXCEPT ![i] = "done"]
    /\ UNCHANGED <<kind, mu, tab, cols, mins, lin, yielded,
                   consVars, addVars, resVars, methVars>>

TwoInit ==
    /\ kind = "two"
    /\ mu \in UNION {PartitionTuplesUpTo(l, TwoMaxSize) : l \in 2..TwoMaxLevel}
    /\ pc = [i \in Traversals |-> "new"]
    /\ tab = [f \in Traversals |-> <<>>]
    /\ cols = [f \in Traversals |-> <<>>]
    /\ mins = [f \in Traversals |-> <<>>]
    /\ lin = <<>>
    /\ yielded = [i \in Traversals |-> <<>>]
    /\ ConsIdle /\ AddIdle /\ ResIdle /\ MethIdle

TwoNext == \E i \in Traversals : TwoStart(i) \/ TwoAdvance(i) \/ TwoFinish(i)

SpecTwo == TwoInit /\ [][TwoNext]_vars

(***************************************************************************)
(* The constructors StandardTableauTuple(t) and RowStandardTableauTuple(t):*)
(* __classcall_private__ and the checks of __init__.                       *)
(***************************************************************************)
ConsMaxLevel == 2
ConsMaxSize == 3

\* the tuples of at most l partition-shaped components with at most n small
\* integer entries
ConsInputs(l, n) ==
    UNION {{tableau_from_list(m, f) :
                f \in [0..(ShapeSize(m) - 1) -> 0..(ShapeSize(m) + 1)]} :
           m \in UNION {PartitionTuplesUpTo(k, n) : k \in 1..l}}

\* Tableau.is_row_strict and Tableau.is_column_strict of one component
is_row_strict(s) ==
    \A r \in 1..Len(s) : \A j \in 1..(Len(s[r]) - 1) : s[r][j] < s[r][j + 1]

is_column_strict(s) ==
    \A r \in 1..(Len(s) - 1) : \A j \in 1..Len(s[r + 1]) : s[r][j] < s[r + 1][j]

\* Python's sorted() on a list of integers
RECURSIVE sorted(_)
sorted(s) ==
    IF Len(s) <= 1 THEN s
    ELSE LET rest == sorted(Tail(s))
             k == Cardinality({i \in 1..Len(rest) : rest[i] < s[1]})
         IN  SubSeq(rest, 1, k) \o <<s[1]>> \o SubSeq(rest, k + 1, Len(rest))

\* RowStandardTableauTuple.__init__: "ok" or the message of the ValueError
RowStandardTableauTuple_init(t, check) ==
    IF ~check THEN "ok"
    ELSE IF ~(\A c \in 1..Len(t) : is_row_strict(t[c]))
         THEN "tableaux must be row strict"
    ELSE IF sorted(entries(t)) # [i \in 1..Len(entries(t)) |-> i]
         THEN "entries must be in bijection with {1,2,...,n}"
    ELSE "ok"

\* StandardTableauTuple.__init__: the inherited checks, then the columns
StandardTableauTuple_init(t, check) ==
    LET sup == RowStandardTableauTuple_init(t, check)
    IN  IF sup # "ok" THEN sup
        ELSE IF check /\ ~(\A c \in 1..Len(t) : is_column_strict(t[c]))
             THEN "tableaux must be column strict"
        ELSE "ok"

\* whether RowStandardTableau(s), resp. StandardTableau(s), accepts s
RowStandardTableau_accepts(s) ==
    is_row_strict(s) /\ sorted(Flatten(s)) = [i \in 1..Len(Flatten(s)) |-> i]

StandardTableau_accepts(s) == RowStandardTableau_accepts(s) /\ is_column_strict(s)

\* what a call returns or raises: result is "ok" or the kind of the error,
\* obj the object returned (its class and its value)
Returned(cls, value) == [result |-> "ok", obj |-> [cls |-> cls, value |-> value]]

Raised(msg) == [result |-> msg, obj |-> "None"]

\* StandardTableauTuple.__classcall_private__ on a list t of components.
\* Both conversions fail with a ValueError unless every component is a
\* standard tableau on its own; then t is left as it was given.  A t of
\* length 1 is answered with t[0], whatever it is.
StandardTableauTuple_classcall(t) ==
    IF Len(t) = 1
    THEN Returned(IF StandardTableau_accepts(t[1]) THEN "StandardTableau" ELSE "list", t[1])
    ELSE LET res == StandardTableauTuple_init(t, TRUE)
         IN  IF res = "ok" THEN Returned("StandardTableauTuple", t) ELSE Raised(res)

\* RowStandardTableauTuple.__classcall_private__: the components convert to
\* Tableau; length 1 goes to RowStandardTableaux_all().element_class
RowStandardTableauTuple_classcall(t) ==
    IF Len(t) = 1
    THEN IF RowStandardTableau_accepts(t[1])
         THEN Returned("RowStandardTableau", t[1])
         ELSE Raised("ValueError of RowStandardTableau")
    ELSE LET res == RowStandardTableauTuple_init(t, TRUE)
         IN  IF res = "ok" THEN Returned("RowStandardTableauTuple", t) ELSE Raised(res)

Construct ==
    /\ cons_result = "pending"
    /\ LET res == IF cons_cls = "StandardTableauTuple"
                  THEN StandardTableauTuple_classcall(cons_t)
                  ELSE RowStandardTableauTuple_classcall(cons_t)
       IN  cons_result' = res.result /\ cons_obj' = res.obj
    /\ UNCHANGED <<cons_cls, cons_t, shapeVars, addVars, resVars, methVars>>

ConsInit ==
    /\ cons_cls \in {"StandardTableauTuple", "RowStandardTableauTuple"}
    /\ cons_t \in ConsInputs(ConsMaxLevel, ConsMaxSize)
    /\ cons_result = "pending"
    /\ cons_obj = "None"
    /\ ShapeIdle /\ AddIdle /\ ResIdle /\ MethIdle

ConsNext == Construct

SpecCons == ConsInit /\ [][ConsNext]_vars

(***************************************************************************)
(* The factories StandardTableauTuples and RowStandardTableauTuples, called *)
(* with positional and keyword arguments: __classcall_private__.           *)
(* An argument is a record [ty, i, sh]: an integer i, a shape sh (a list   *)
(* of lists of integers) or None.                                          *)
(***************************************************************************)

\* the largest integer given as an argument
FacMaxInt == 2

FacNone == [ty |-> "None", i |-> 0, sh |-> <<>>]

FacInt(n) == [ty |-> "int", i |-> n, sh |-> <<>>]

FacShape(m) == [ty |-> "shape", i |-> 0, sh |-> m]

IsNone(x) == x.ty = "None"

\* isinstance(x, (int, Integer))
IsInt(x) == x.ty = "int"

\* the integers given as arguments
FacInts == {FacInt(n) : n \in (-1)..FacMaxInt}

\* the shapes given as arguments; the last one is not a partition tuple
FacShapes ==
    {FacShape(m) : m \in {<< <<1>> >>, << <<1>>, <<>> >>, << <<1>>, <<1>> >>,
                            << <<1, 2>>, <<>> >>}}

\* the positional arguments: at most three, the third one an integer
FacArgs ==
    {<<>>} \cup {<<x>> : x \in FacInts \cup FacShapes}
           \cup {<<x, y>> : x \in FacInts \cup FacShapes, y \in FacInts \cup FacShapes}
           \cup {<<x, y, z>> : x \in FacInts \cup FacShapes,
                               y \in FacInts \cup FacShapes, z \in {FacInt(0)}}

\* the keyword arguments; other says that a further keyword is given
FacKwargs ==
    [level : FacInts \cup {FacNone}, size : FacInts \cup {FacNone},
     shape : FacShapes \cup {FacNone}, other : BOOLEAN]

\* PartitionTuple(shape) raises ValueError unless every component is a partition
PartitionTuple_accepts(x) ==
    /\ x.ty = "shape"
    /\ \A c \in 1..Len(x.sh) : IsPartition(x.sh[c])

\* the class of the parent that is returned
ParentClass(cls, level_one, which) ==
    IF cls = "StandardTableauTuples"
    THEN IF level_one
         THEN CASE which = "shape" -> "StandardTableaux_shape"
                [] which = "size"  -> "StandardTableaux_size"
                [] OTHER          -> "StandardTableaux_all"
         ELSE CASE which = "shape"      -> "StandardTableauTuples_shape"
                [] which = "level_size" -> "StandardTableauTuples_level_size"
                [] which = "level"      -> "StandardTableauTuples_level"
                [] which = "size"       -> "StandardTableauTuples_size"
                [] OTHER               -> "StandardTableauTuples_all"
    ELSE IF level_one
         THEN CASE which = "shape" -> "RowStandardTableaux_shape"
                [] which = "size"  -> "RowStandardTableaux_size"
                [] OTHER          -> "RowStandardTableaux_all"
         ELSE CASE which = "shape"      -> "RowStandardTableauTuples_shape"
                [] which = "level_size" -> "RowStandardTableauTuples_level_size"
                [] which = "level"      -> "RowStandardTableauTuples_level"
                [] which = "size"       -> "RowStandardTableauTuples_size"
                [] OTHER               -> "RowStandardTableauTuples_all"

\* "now that the inputs appear to make sense, return the appropriate class"
factory_return(cls, level, size, shp) ==
    LET params == [level |-> level, size |-> size, shape |-> shp]
    IN  IF ~IsNone(level) /\ level.i <= 1
        THEN IF ~IsNone(shp) THEN Returned(ParentClass(cls, TRUE, "shape"), params)
             ELSE IF ~IsNone(size) THEN Returned(ParentClass(cls, TRUE, "size"), params)
             ELSE Returned(ParentClass(cls, TRUE, "all"), params)
        ELSE IF ~IsNone(shp) THEN Returned(ParentClass(cls, FALSE, "shape"), params)
        ELSE IF ~IsNone(level) /\ ~IsNone(size)
             THEN Returned(ParentClass(cls, FALSE, "level_size"), params)
        ELSE IF ~IsNone(level) THEN Returned(ParentClass(cls, FALSE, "level"), params)
        ELSE IF ~IsNone(size) THEN Returned(ParentClass(cls, FALSE, "size"), params)
        ELSE Returned(ParentClass(cls, FALSE, "all"), params)

\* "now check that the arguments are consistent"
factory_check(cls, level, size, shp) ==
    IF ~IsNone(level) /\ (~IsInt(level) \/ level.i < 1)
    THEN Raised("ValueError")       \* the level must be a positive integer
    ELSE IF ~IsNone(size) /\ (~IsInt(size) \/ size.i < 0)
    THEN Raised("ValueError")       \* the size must be a nonnegative integer
    ELSE IF ~IsNone(shp)
    THEN IF ~PartitionTuple_accepts(shp)
         THEN Raised("ValueError")  \* the shape must be a partition tuple
         ELSE IF ~IsNone(level) /\ level.i # Len(shp.sh)
         THEN Raised("ValueError")  \* the shape and level must agree
         ELSE IF ~IsNone(size) /\ size.i # ShapeSize(shp.sh)
         THEN Raised("ValueError")  \* the shape and size must agree
         ELSE factory_return(cls, FacInt(Len(shp.sh)), FacInt(ShapeSize(shp.sh)), shp)
    ELSE factory_return(cls, level, size, shp)

\* __classcall_private__(cls, *args, **kwargs)
factory_classcall(cls, args, kwargs) ==
    IF kwargs.other
    THEN Raised("ValueError")       \* ... is not a valid argument
    ELSE IF Len(args) >= 1 /\ IsInt(args[1]) /\ ~IsNone(kwargs.level)
    THEN Raised("ValueError")       \* the level was specified more than once
    ELSE IF Len(args) >= 1 /\ ~IsInt(args[1]) /\ ~IsNone(kwargs.shape)
    THEN Raised("ValueError")       \* the shape was specified more than once
    ELSE LET level == IF Len(args) >= 1 /\ IsInt(args[1]) THEN args[1] ELSE kwargs.level
             shp == IF Len(args) >= 1 /\ ~IsInt(args[1]) THEN args[1] ELSE kwargs.shape
         IN  IF Len(args) = 2 /\ ~IsNone(level) /\ ~IsNone(kwargs.size)
             THEN Raised("ValueError")  \* the level or size was specified more than once
             ELSE IF Len(args) > 2
             THEN Raised("ValueError")  \* too many arguments
             ELSE factory_check(cls, level,
                                IF Len(args) = 2 THEN args[2] ELSE kwargs.size, shp)

\* the call of a factory
FactoryCall ==
    /\ cons_result = "pending"
    /\ \E res \in {factory_classcall(cons_cls, cons_t.args, cons_t.kwargs)} :
            cons_result' = res.result /\ cons_obj' = res.obj
    /\ UNCHANGED <<cons_cls, cons_t, shapeVars, addVars, resVars, methVars>>

FactoryInit ==
    /\ cons_cls \in {"StandardTableauTuples", "RowStandardTableauTuples"}
    /\ cons_t \in [args : FacArgs, kwargs : FacKwargs]
    /\ cons_result = "pending"
    /\ cons_obj = "None"
    /\ ShapeIdle /\ AddIdle /\ ResIdle /\ MethIdle

FactoryNext == FactoryCall

SpecFactory == FactoryInit /\ [][FactoryNext]_vars

(***************************************************************************)
(* TableauTuple.add_entry.                                                 *)
(***************************************************************************)
AddMaxSize == 3
AddMaxIndex == 3

\* the tableau tuples of level 2 and size at most n, filled in reading order
AddInputs(n) == {tableau_from_list(m, InitialTab(m)) : m \in PartitionTuplesUpTo(2, n)}

\* the integer triples with coordinates of absolute value at most b
AddCells(b) == {<<k, r, c>> : k \in (-b)..b, r \in (-b)..b, c \in (-b)..b}

\* the position (0-based) that Python's list indexing reads for index i of
\* a list of length n; -1 stands for IndexError
PyIndex(n, i) ==
    IF 0 <= i /\ i < n THEN i
    ELSE IF -n <= i /\ i < 0 THEN n + i
    ELSE -1

\* PartitionTuple.addable_cells, cells <<k, r, c>> 0-based
addable_cells(sh) ==
    {<<k, r, c>> \in UNION {{<<k0 - 1, r0, IF r0 < Len(sh[k0]) THEN sh[k0][r0 + 1] ELSE 0>> :
                                r0 \in 0..Len(sh[k0])} : k0 \in 1..Len(sh)} :
        r = 0 \/ sh[k + 1][r] > c}

\* add_entry(cell, m) of the tableau tuple t: the list tab it hands to the
\* constructors, which all keep it as it is
add_entry(t, cell, m) ==
    LET k == cell[1]
        r == cell[2]
        c == cell[3]
        kk == PyIndex(Len(t), k)
        rr == IF kk = -1 THEN -1 ELSE PyIndex(Len(t[kk + 1]), r)
        cc == IF rr = -1 THEN -1 ELSE PyIndex(Len(t[kk + 1][rr + 1]), c)
    IN  IF cc # -1
        THEN [result |-> "ok", tab |-> [t EXCEPT ![kk + 1][rr + 1][cc + 1] = m]]
        ELSE IF <<k, r, c>> \in addable_cells(shape(t))
        THEN LET t1 == IF r = Len(t[k + 1])
                       THEN [t EXCEPT ![k + 1] = Append(@, <<>>)]
                       ELSE t
             IN  [result |-> "ok", tab |-> [t1 EXCEPT ![k + 1][r + 1] = Append(@, m)]]
        ELSE [result |-> "IndexError", tab |-> "None"]

AddEntry ==
    /\ add_result = "pending"
    /\ LET res == add_entry(add_t, add_cell, add_m)
       IN  add_result' = res.result /\ add_out' = res.tab
    /\ UNCHANGED <<add_t, add_cell, add_m, shapeVars, consVars, resVars, methVars>>

AddInit ==
    /\ add_t \in AddInputs(AddMaxSize)
    /\ add_cell \in AddCells(AddMaxIndex)
    /\ add_m \in {0, ShapeSize(shape(add_t)) + 1}
    /\ add_result = "pending"
    /\ add_out = "None"
    /\ ShapeIdle /\ ConsIdle /\ ResIdle /\ MethIdle

AddNext == AddEntry

SpecAdd == AddInit /\ [][AddNext]_vars

(***************************************************************************)
(* The residue enumerators StandardTableaux_residue and                    *)
(* StandardTableaux_residue_shape, of level 2.  Their __iter__ are nested  *)
(* generators: the one of size j draws from the one of size j - 1.         *)
(***************************************************************************)
ResMaxSize == 3

\* the quantum characteristics tried
ResChars == {0, 2, 3}

\* the elements of the base ring that are tried: IntegerModRing(e), and
\* two integers when e = 0
ResidueValues(e) == IF e = 0 THEN 0..1 ELSE 0..(e - 1)

\* the partition tuples of level 2, by size
ResShapes ==
    [n \in 0..ResMaxSize |-> {m \in PartitionTuplesUpTo(2, n) : ShapeSize(m) = n}]

\* the coercion of an integer into IntegerModRing(e)
BaseRing(e, x) == IF e = 0 THEN x ELSE x % e

\* the cells of a set as the list that the shape hands out: by component,
\* then by row
RECURSIVE CellsInOrder(_)
CellsInOrder(S) ==
    IF S = {} THEN <<>>
    ELSE LET first == CHOOSE x \in S : \A y \in S :
                        \/ x[1] < y[1]
                        \/ x[1] = y[1] /\ x[2] < y[2]
                        \/ x[1] = y[1] /\ x[2] = y[2] /\ x[3] <= y[3]
         IN  <<first>> \o CellsInOrder(S \ {first})

\* PartitionTuple.cells
cells(sh) ==
    UNION {UNION {{<<k - 1, r - 1, c - 1>> : c \in 1..sh[k][r]} : r \in 1..Len(sh[k])} :
           k \in 1..Len(sh)}

\* PartitionTuple.removable_cells and PartitionTuple.remove_cell
removable_cells(sh) ==
    {x \in cells(sh) :
        /\ x[3] = sh[x[1] + 1][x[2] + 1] - 1
        /\ x[2] + 1 = Len(sh[x[1] + 1]) \/ sh[x[1] + 1][x[2] + 2] <= x[3]}

remove_cell(sh, cell) ==
    [sh EXCEPT ![cell[1] + 1] =
        IF @[cell[2] + 1] = 1 THEN SubSeq(@, 1, cell[2])
        ELSE [@ EXCEPT ![cell[2] + 1] = @ - 1]]

\* ResidueSequences.cell_residue(k, r, c)
cell_residue(e, mc, cell) == BaseRing(e, mc[cell[1] + 1] - cell[2] + cell[3])

\* _add_entry_fast(T, cell, m)
add_entry_fast(T, cell, m) ==
    LET k == cell[1]
        r == cell[2]
        c == cell[3]
        kk == PyIndex(Len(T), k)
        rr == IF kk = -1 THEN -1 ELSE PyIndex(Len(T[kk + 1]), r)
        cc == IF rr = -1 THEN -1 ELSE PyIndex(Len(T[kk + 1][rr + 1]), c)
    IN  IF cc # -1
        THEN [T EXCEPT ![kk + 1][rr + 1][cc + 1] = m]
        ELSE LET t1 == IF r = Len(T[k + 1])
                       THEN [T EXCEPT ![k + 1] = Append(@, <<>>)]
                       ELSE T
             IN  [t1 EXCEPT ![k + 1][r + 1] = Append(@, m)]

\* RowStandardTableauTuple.residue_sequence: the loop that fills res
RECURSIVE FillResidues(_, _, _, _)
FillResidues(t, mc, cs, res) ==
    IF Len(cs) = 0 THEN res
    ELSE LET x == cs[1]
             i == PyIndex(Len(res), t[x[1] + 1][x[2] + 1][x[3] + 1] - 1)
         IN  FillResidues(t, mc, Tail(cs),
                          [res EXCEPT ![i + 1] = mc[x[1] + 1] - x[2] + x[3]])

residue_sequence(t, e, mc) ==
    LET res == FillResidues(t, mc, CellsInOrder(cells(shape(t))),
                            [i \in 1..Len(entries(t)) |-> 0])
    IN  [i \in 1..Len(res) |-> BaseRing(e, res[i])]

\* self._residue[self._size] of the enumerator of size j; the variant reads
\* the residue before it
residue_of_size_previous(seq, j) == seq[IF j > 1 THEN j - 1 ELSE j]

residue_of_size(seq, j) == seq[j]

\* the variant that gives up when the first cell has another residue
FirstOfResidue_first_only(e, mc, cs, i) ==
    IF Len(cs) > 0 /\ cell_residue(e, mc, cs[1]) = i THEN 1 ELSE 0

\* the position in the list cs of the first cell of residue i, 0 when none
FirstOfResidue(e, mc, cs, i) ==
    LET hits == {p \in 1..Len(cs) : cell_residue(e, mc, cs[p]) = i}
    IN  IF hits = {} THEN 0 ELSE SetMin(hits)

\* a generator that has not run yet
NewFrame(sh) ==
    [st |-> "new", t |-> <<>>, shape |-> sh, cell |-> <<>>,
     cells |-> IF sh = <<>> THEN <<>> ELSE CellsInOrder(removable_cells(sh))]

Stopped(fr) == [fr |-> fr, ok |-> FALSE, out |-> <<>>]

Yielded(fr, t) == [fr |-> fr, ok |-> TRUE, out |-> t]

\* the empty tableaux: StandardTableauTuple([[] for _ in range(self._level)])
EmptyTableaux(level) == [k \in 1..level |-> <<>>]

\* next() of the generator StandardTableaux_residue.__iter__ of size j, with
\* the suspended generators fr: the outer loop draws t from the generator of
\* size j - 1, the inner loop runs through the addable cells of t
RECURSIVE StandardTableaux_residue_next(_, _, _, _, _)
StandardTableaux_residue_next(e, mc, seq, j, fr) ==
    IF fr[j].st = "done" THEN Stopped(fr)
    ELSE IF j = 0
    THEN IF fr[0].st = "new"
         THEN Yielded([fr EXCEPT ![0].st = "loop"], EmptyTableaux(Len(mc)))
         ELSE Stopped([fr EXCEPT ![0].st = "done"])
    ELSE LET p == IF fr[j].st = "loop"
                  THEN FirstOfResidue(e, mc, fr[j].cells, residue_of_size(seq, j))
                  ELSE 0
         IN  IF p > 0
             THEN Yielded([fr EXCEPT ![j].cells = SubSeq(@, p + 1, Len(@))],
                          add_entry_fast(fr[j].t, fr[j].cells[p], j))
             ELSE LET sub == StandardTableaux_residue_next(e, mc, seq, j - 1, fr)
                  IN  IF ~sub.ok
                      THEN Stopped([sub.fr EXCEPT ![j].st = "done"])
                      ELSE StandardTableaux_residue_next(e, mc, seq, j,
                              [sub.fr EXCEPT ![j] =
                                  [st |-> "loop", t |-> sub.out, shape |-> <<>>,
                                   cell |-> <<>>,
                                   cells |-> CellsInOrder(addable_cells(shape(sub.out)))]])

\* next() of the generator StandardTableaux_residue_shape.__iter__ of size j:
\* the outer loop runs through the removable cells of the shape, the inner
\* loop draws t from the generator of the shape without the cell
RECURSIVE StandardTableaux_residue_shape_next(_, _, _, _, _)
StandardTableaux_residue_shape_next(e, mc, seq, j, fr) ==
    IF fr[j].st = "done" THEN Stopped(fr)
    ELSE IF j = 0
    THEN IF fr[0].st = "new"
         THEN Yielded([fr EXCEPT ![0].st = "loop"], EmptyTableaux(Len(mc)))
         ELSE Stopped([fr EXCEPT ![0].st = "done"])
    ELSE LET sub == IF fr[j].st = "loop"
                    THEN StandardTableaux_residue_shape_next(e, mc, seq, j - 1, fr)
                    ELSE Stopped(fr)
         IN  IF sub.ok
             THEN Yielded(sub.fr, add_entry_fast(sub.out, fr[j].cell, j))
             ELSE LET cs == fr[j].cells
                      p == FirstOfResidue(e, mc, cs, residue_of_size(seq, j))
                  IN  IF p = 0
                      THEN Stopped([sub.fr EXCEPT ![j].st = "done"])
                      ELSE StandardTableaux_residue_shape_next(e, mc, seq, j,
                              [sub.fr EXCEPT
                                  ![j].st = "loop",
                                  ![j].cell = cs[p],
                                  ![j].cells = SubSeq(cs, p + 1, Len(cs)),
                                  ![j - 1] = NewFrame(remove_cell(fr[j].shape, cs[p]))])

\* StandardTableaux_residue.__contains__ and
\* StandardTableaux_residue_shape.__contains__ for a list t of components
residue_contains(t) ==
    /\ StandardTableauTuple_classcall(t).result = "ok"
    /\ res_cls = "residue_shape" => shape(t) = res_shape
    /\ residue_sequence(t, res_e, res_mc) = res_seq

\* one call of next() on the iterator of the enumerator
ResNextCall ==
    /\ res_pc = "run"
    /\ \E r \in {IF res_cls = "residue"
                 THEN StandardTableaux_residue_next(
                          res_e, res_mc, res_seq, Len(res_seq), res_frames)
                 ELSE StandardTableaux_residue_shape_next(
                          res_e, res_mc, res_seq, Len(res_seq), res_frames)} :
            /\ res_frames' = r.fr
            /\ res_pc' = IF r.ok THEN "run" ELSE "done"
            /\ res_yielded' = IF r.ok THEN Append(res_yielded, r.out) ELSE res_yielded
    /\ UNCHANGED <<res_cls, res_e, res_mc, res_seq, res_shape,
                   shapeVars, consVars, addVars, methVars>>

\* an enumerator as its constructor leaves it, and a fresh iterator on it;
\* StandardTableaux_residue_shape.__init__ raises unless the shape has the
\* size of the residue sequence
ResInit ==
    /\ res_cls \in {"residue", "residue_shape"}
    /\ res_e \in ResChars
    /\ res_mc \in [1..2 -> ResidueValues(res_e)]
    /\ res_seq \in UNION {[1..n -> ResidueValues(res_e)] : n \in 0..ResMaxSize}
    /\ res_shape \in IF res_cls = "residue" THEN {"None"}
                     ELSE ResShapes[Len(res_seq)]
    /\ res_frames = [j \in 0..Len(res_seq) |->
                        IF res_cls = "residue_shape" /\ j = Len(res_seq)
                        THEN NewFrame(res_shape)
                        ELSE NewFrame(<<>>)]
    /\ res_pc = "run"
    /\ res_yielded = <<>>
    /\ ShapeIdle /\ ConsIdle /\ AddIdle /\ MethIdle

ResNext == ResNextCall

SpecRes == ResInit /\ [][ResNext]_vars

(***************************************************************************)
(* The constructors of the enumerators of a fixed residue sequence and     *)
(* shape: StandardTableaux_residue_shape.__init__ and                      *)
(* RowStandardTableauTuples_residue_shape.__init__.                        *)
(***************************************************************************)

\* the multicharges the constructors are called with
NewMulticharges == {<<0, 0>>, <<0, 1>>}

\* a variant that does not compare the sizes
residue_shape_init_unchecked(cls, seq, sh) ==
    [raised |-> FALSE,
     pc     |-> IF cls = "residue_shape" THEN "run" ELSE "constructed",
     frames |-> [j \in 0..Len(seq) |->
                    IF j = Len(seq) THEN NewFrame(sh) ELSE NewFrame(<<>>)]]

\* __init__(self, residue, shape):
\*     if residue.size() != shape.size(): raise ValueError(...)
\* and then the attributes are set; nothing is set when it raises
residue_shape_init(cls, seq, sh) ==
    IF Len(seq) # ShapeSize(sh)
    THEN [raised |-> TRUE, pc |-> "ValueError", frames |-> "None"]
    ELSE [raised |-> FALSE,
          pc     |-> IF cls = "residue_shape" THEN "run" ELSE "constructed",
          frames |-> [j \in 0..Len(seq) |->
                         IF j = Len(seq) THEN NewFrame(sh) ELSE NewFrame(<<>>)]]

\* the call of the constructor
ResShapeNew ==
    /\ res_pc = "call"
    /\ \E r \in {residue_shape_init(res_cls, res_seq, res_shape)} :
            /\ res_pc' = r.pc
            /\ res_frames' = r.frames
    /\ UNCHANGED <<res_cls, res_e, res_mc, res_seq, res_shape, res_yielded,
                   shapeVars, consVars, addVars, methVars>>

\* a residue sequence and a shape of any sizes, before the constructor runs
ResNewInit ==
    /\ res_cls \in {"residue_shape", "row_residue_shape"}
    /\ res_e \in ResChars
    /\ res_mc \in {mc \in NewMulticharges : \A c \in 1..2 : mc[c] \in ResidueValues(res_e)}
    /\ res_seq \in UNION {[1..n -> ResidueValues(res_e)] : n \in 0..ResMaxSize}
    /\ res_shape \in UNION {ResShapes[n] : n \in 0..ResMaxSize}
    /\ res_frames = "None"
    /\ res_pc = "call"
    /\ res_yielded = <<>>
    /\ ShapeIdle /\ ConsIdle /\ AddIdle /\ MethIdle

ResNewNext == ResShapeNew \/ ResNextCall

SpecResNew == ResNewInit /\ [][ResNewNext]_vars

(***************************************************************************)
(* RowStandardTableauTuples_residue_shape and                              *)
(* RowStandardTableauTuples_residue, of level 1 and 2.  The first draws    *)
(* the standard tableaux of the stretched shape (one component per row)    *)
(* from StandardTableaux_residue_shape and regroups them; the second runs  *)
(* through the shapes of the block.  A shape of level 1 is written as a    *)
(* list with the partition as its one component.                           *)
(***************************************************************************)
\* the rows of the shape in order: <<component (1-based), row (0-based)>>
StretchedRows(sh) ==
    Flatten([c \in 1..Len(sh) |-> [r \in 1..Len(sh[c]) |-> <<c, r - 1>>]])

\* __init__: standard_shape, charge and _cumulative_lengths
standard_shape(sh) ==
    [k \in 1..Len(StretchedRows(sh)) |->
        <<sh[StretchedRows(sh)[k][1]][StretchedRows(sh)[k][2] + 1]>>]

charge(mc, sh) ==
    [k \in 1..Len(StretchedRows(sh)) |->
        mc[StretchedRows(sh)[k][1]] - StretchedRows(sh)[k][2]]

cumulative_lengths(sh) ==
    [c \in 0..Len(sh) |-> SumSeq([k \in 1..c |-> Len(sh[k])])]

\* the generators of res.standard_tableaux(standard_shape) before they run
StandardFrames(sh, n) ==
    [j \in 0..n |-> IF j = n THEN NewFrame(standard_shape(sh)) ELSE NewFrame(<<>>)]

\* next() on self._standard_tableaux.  The enumerator of a stretched shape
\* of level 1 yields tableaux, not tuples of them: its size 0 tableau is
\* StandardTableauTuple([[]]), which is a StandardTableau, and add_entry
\* keeps it one.
standard_tableaux_next(e, ch, seq, fr) ==
    LET r == StandardTableaux_residue_shape_next(e, ch, seq, Len(seq), fr)
    IN  IF r.ok /\ Len(ch) = 1 THEN [r EXCEPT !.out = r.out[1]] ELSE r

\* Tableau(s) for a list s of rows: the row lengths are weakly decreasing
Tableau_accepts(s) ==
    \A r \in 1..(Len(s) - 1) : Len(s[r]) >= Len(s[r + 1])

\* RowStandardTableauTuple.__init__(parent, t, check=False).  When flat, the
\* members of t are lists of entries, not of rows: Tableau(s) raises for
\* the first one that is not empty and t as a whole is tried as a tableau.
RowStandardTableauTuple_init_unchecked(flat, t) ==
    IF ~flat
    THEN IF \A c \in 1..Len(t) : Tableau_accepts(t[c])
         THEN [raised |-> FALSE, value |-> t]
         ELSE [raised |-> TRUE, value |-> <<>>]
    ELSE IF Tableau_accepts(t)
         THEN [raised |-> FALSE, value |-> <<t>>]
         ELSE [raised |-> TRUE, value |-> <<>>]

\* what next() on a generator gives: a value, StopIteration or ValueError
GenYield(g, t) == [g |-> g, res |-> "yield", out |-> t]

GenStop(g) == [g |-> [g EXCEPT !.st = "done"], res |-> "stop", out |-> <<>>]

GenRaise(g) == [g |-> [g EXCEPT !.st = "done"], res |-> "raise", out |-> <<>>]

\* __iter__level_one: after the empty tableau of size 0 the generator goes
\* on to the loop; RowStandardTableau([s[0] for s in t]) raises when the
\* s[0] are entries
iter_level_one(e, ch, seq, g) ==
    IF Len(seq) = 0 /\ g.st = "new"
    THEN GenYield([g EXCEPT !.st = "loop"], <<>>)
    ELSE LET sub == standard_tableaux_next(e, ch, seq, g.inner)
             lst == [k \in 1..Len(sub.out) |-> sub.out[k][1]]
         IN  IF ~sub.ok THEN GenStop([g EXCEPT !.inner = sub.fr])
             ELSE IF Len(ch) = 1 \/ ~RowStandardTableau_accepts(lst)
             THEN GenRaise([g EXCEPT !.inner = sub.fr])
             ELSE GenYield([g EXCEPT !.st = "loop", !.inner = sub.fr], lst)

\* [[t[r][0] for r in range(cum[c], cum[c + 1])] for c in range(level)]
regroup(t, cum) ==
    [c \in 1..(Cardinality(DOMAIN cum) - 1) |->
        [r \in 1..(cum[c] - cum[c - 1]) |-> t[cum[c - 1] + r][1]]]

\* __iter__higher_levels
iter_higher_levels(e, ch, seq, cum, g) ==
    IF Len(seq) = 0
    THEN IF g.st = "new"
         THEN GenYield([g EXCEPT !.st = "loop"], EmptyTableaux(Cardinality(DOMAIN cum) - 1))
         ELSE GenStop(g)
    ELSE LET sub == standard_tableaux_next(e, ch, seq, g.inner)
             obj == RowStandardTableauTuple_init_unchecked(
                        Len(ch) = 1, regroup(sub.out, cum))
         IN  IF ~sub.ok THEN GenStop([g EXCEPT !.inner = sub.fr])
             ELSE IF obj.raised THEN GenRaise([g EXCEPT !.inner = sub.fr])
             ELSE GenYield([g EXCEPT !.st = "loop", !.inner = sub.fr], obj.value)

\* RowStandardTableauTuples_residue_shape.__iter__ of the shape g.cur
residue_shape_iter(e, mc, seq, g) ==
    IF Len(mc) = 1
    THEN iter_level_one(e, charge(mc, g.cur), seq, g)
    ELSE iter_higher_levels(e, charge(mc, g.cur), seq, cumulative_lengths(g.cur), g)

\* mu.block(e, multicharge) == residue.block(): as many cells of each
\* residue as the residue sequence has entries of it
InBlock(e, mc, seq, sh) ==
    \A i \in {BaseRing(e, x) : x \in -ResMaxSize..ResMaxSize} :
        Cardinality({x \in cells(sh) : cell_residue(e, mc, x) = i})
            = Cardinality({k \in 1..Len(seq) : seq[k] = i})

\* a set of shapes as a list: by the first component, then by the second
RECURSIVE ShapesInOrder(_)
ShapesInOrder(S) ==
    IF S = {} THEN <<>>
    ELSE LET key(m) == Flatten([c \in 1..Len(m) |->
                            [i \in 1..ResMaxSize + 1 |->
                                IF i <= Len(m[c]) THEN m[c][i] ELSE 0]])
             less(a, b) == \E i \in 1..Len(a) :
                            /\ a[i] > b[i]
                            /\ \A h \in 1..(i - 1) : a[h] = b[h]
             head == CHOOSE m \in S : \A o \in S \ {m} : less(key(m), key(o))
         IN  <<head>> \o ShapesInOrder(S \ {head})

\* the shapes RowStandardTableauTuples_residue.__iter__ runs through
BlockShapes(e, mc, seq) ==
    ShapesInOrder({m \in PartitionTuplesUpTo(Len(mc), Len(seq)) :
                      ShapeSize(m) = Len(seq) /\ InBlock(e, mc, seq, m)})

\* RowStandardTableauTuples_residue.__iter__: g.shapes are the shapes still
\* to come, g.cur the one whose enumerator is being drawn from
RECURSIVE residue_iter(_, _, _, _)
residue_iter(e, mc, seq, g) ==
    IF Len(seq) = 0
    THEN IF g.st = "new"
         THEN GenYield([g EXCEPT !.st = "loop"],
                       IF Len(mc) = 1 THEN <<>> ELSE EmptyTableaux(Len(mc)))
         ELSE GenStop(g)
    ELSE IF g.st = "new"
    THEN IF Len(g.shapes) = 0 THEN GenStop(g)
         ELSE residue_iter(e, mc, seq,
                  [st |-> "loop", cur |-> Head(g.shapes), shapes |-> Tail(g.shapes),
                   inner |-> StandardFrames(Head(g.shapes), Len(seq))])
    ELSE LET sub == residue_shape_iter(e, mc, seq, [g EXCEPT !.st = "loop"])
         IN  IF sub.res = "raise" THEN GenRaise(sub.g)
             ELSE IF sub.res = "yield" THEN GenYield(sub.g, sub.out)
             ELSE residue_iter(e, mc, seq, [g EXCEPT !.st = "new"])

\* one call of next() on the iterator of the enumerator
RowResNextCall ==
    /\ res_pc = "run"
    /\ res_cls \in {"row_residue", "row_residue_shape"}
    /\ \E r \in {IF res_cls = "row_residue"
                 THEN residue_iter(res_e, res_mc, res_seq, res_frames)
                 ELSE residue_shape_iter(res_e, res_mc, res_seq, res_frames)} :
            /\ res_frames' = r.g
            /\ res_pc' = IF r.res = "yield" THEN "run"
                         ELSE IF r.res = "stop" THEN "done" ELSE "ValueError"
            /\ res_yielded' = IF r.res = "yield" THEN Append(res_yielded, r.out)
                              ELSE res_yielded
    /\ UNCHANGED <<res_cls, res_e, res_mc, res_seq, res_shape,
                   shapeVars, consVars, addVars, methVars>>

\* an enumerator as its constructor leaves it, and a fresh iterator on it
RowResInit ==
    /\ res_cls \in {"row_residue", "row_residue_shape"}
    /\ res_e \in ResChars
    /\ res_mc \in {mc \in UNION {[1..l -> ResidueValues(res_e)] : l \in 1..2} : mc[1] = 0}
    /\ res_seq \in UNION {[1..n -> ResidueValues(res_e)] : n \in 0..ResMaxSize}
    /\ res_shape \in IF res_cls = "row_residue" THEN {<<>>}
                     ELSE {m \in PartitionTuplesUpTo(Len(res_mc), Len(res_seq)) :
                              ShapeSize(m) = Len(res_seq)}
    /\ res_frames =
            IF res_cls = "row_residue"
            THEN [st |-> "new", cur |-> <<>>,
                  shapes |-> BlockShapes(res_e, res_mc, res_seq),
                  inner |-> StandardFrames(<<>>, Len(res_seq))]
            ELSE [st |-> "new", cur |-> res_shape, shapes |-> <<>>,
                  inner |-> StandardFrames(res_shape, Len(res_seq))]
    /\ res_pc = "run"
    /\ res_yielded = <<>>
    /\ ShapeIdle /\ ConsIdle /\ AddIdle /\ MethIdle

RowResNext == RowResNextCall

SpecRowRes == RowResInit /\ [][RowResNext]_vars

\* any of the enumerators of a fixed residue sequence
AllResInit == ResInit \/ RowResInit

AllResNext ==
    \/ res_cls \in {"residue", "residue_shape"} /\ ResNextCall
    \/ RowResNextCall

SpecAllRes == AllResInit /\ [][AllResNext]_vars

(***************************************************************************)
(* Methods of a (row) standard tableau tuple t of level 2 or 3: conjugate, *)
(* restrict, to_chain, content, residue, residue_sequence.                 *)
(***************************************************************************)
MethMaxSize == 3

\* the shapes of the tableau tuples the methods are called on: level 2 up to
\* size MethMaxSize, and level 3 up to size 2
MethShapes == PartitionTuplesUpTo(2, MethMaxSize) \cup PartitionTuplesUpTo(3, 2)

\* the row standard tableau tuples of these shapes, each with its class and
\* its parent: the set of all tableau tuples of its class ("all") or the one
\* of its shape ("shape")
MethInputs ==
    UNION {UNION {{[cls |-> c, parent |-> q, value |-> t] :
                      c \in IF RowStandardTableauTuple_init(t, TRUE) # "ok" THEN {}
                            ELSE IF StandardTableauTuple_init(t, TRUE) = "ok"
                            THEN {"StandardTableauTuple"}
                            ELSE {"RowStandardTableauTuple"},
                      q \in {"all", "shape"}} :
                  t \in {tableau_from_list(m, [i \in 0..(ShapeSize(m) - 1) |-> p[i + 1]]) :
                            p \in Perms(ShapeSize(m))}} :
           m \in MethShapes}

\* the multicharges tried for a level and a quantum characteristic
Multicharges(level, e) ==
    {mc \in [1..level -> ResidueValues(e)] : level = 2 \/ mc[1] = 0}

\* Tableau.conjugate of one component: its columns as rows
Tableau_conjugate(s) ==
    [j \in 1..(IF Len(s) = 0 THEN 0 ELSE Len(s[1])) |->
        [r \in 1..Cardinality({r \in 1..Len(s) : Len(s[r]) >= j}) |-> s[r][j]]]

\* the variant that keeps the entries below m only
Tableau_restrict_strict(s, m) ==
    LET kept == [r \in 1..Len(s) |-> SelectSeq(s[r], LAMBDA x : x < m)]
    IN  SelectSeq(kept, LAMBDA row : Len(row) > 0)

\* Tableau.restrict of one component: the entries at most m, without the
\* rows that lose all their entries
Tableau_restrict(s, m) ==
    LET kept == [r \in 1..Len(s) |-> SelectSeq(s[r], LAMBDA x : x <= m)]
    IN  SelectSeq(kept, LAMBDA row : Len(row) > 0)

\* the membership test without its comparison down the columns
StandardTableauTuples_contains_rows(t) ==
    /\ sorted(entries(t)) = [i \in 1..Len(entries(t)) |-> i]
    /\ \A k \in 1..Len(t) :
        \/ Len(t[k]) = 0
        \/ \A r \in 1..Len(t[k]) : \A i \in 1..(Len(t[k][r]) - 1) :
                t[k][r][i] < t[k][r][i + 1]

\* StandardTableauTuples.__contains__ and RowStandardTableauTuples.__contains__
\* for a list t of tableaux
StandardTableauTuples_contains(t) ==
    /\ sorted(entries(t)) = [i \in 1..Len(entries(t)) |-> i]
    /\ \A k \in 1..Len(t) :
        \/ Len(t[k]) = 0
        \/ /\ \A r \in 1..Len(t[k]) : \A i \in 1..(Len(t[k][r]) - 1) :
                    t[k][r][i] < t[k][r][i + 1]
           /\ \A c \in 1..Len(t[k][1]) : \A r \in 1..(Len(t[k]) - 1) :
                    Len(t[k][r + 1]) >= c => t[k][r][c] < t[k][r + 1][c]

RowStandardTableauTuples_contains(t) ==
    /\ sorted(entries(t)) = [i \in 1..Len(entries(t)) |-> i]
    /\ \A k \in 1..Len(t) :
        \/ Len(t[k]) = 0
        \/ \A r \in 1..Len(t[k]) : \A i \in 1..(Len(t[k][r]) - 1) :
                t[k][r][i] < t[k][r][i + 1]

\* "tab in self.parent()" for the parent of the object o
parent_contains(o, lst) ==
    /\ IF o.cls = "StandardTableauTuple"
       THEN StandardTableauTuples_contains(lst)
       ELSE RowStandardTableauTuples_contains(lst)
    /\ o.parent = "shape" => shape(lst) = o.shape

\* self.parent().element_class(self.parent(), tab): "ok" or the error
element_class_init(o, lst) ==
    IF o.cls = "StandardTableauTuple"
    THEN StandardTableauTuple_init(lst, TRUE)
    ELSE RowStandardTableauTuple_init(lst, TRUE)

\* an object of the class and parent of o, with the list tab
SameKind(o, lst) == [o EXCEPT !.value = lst]

\* self.parent()(tab), TableauTuples._element_constructor_, for a list tab
\* of two or more tableaux: the object, or "ValueError"
parent_call(o, lst) ==
    IF parent_contains(o, lst) /\ element_class_init(o, lst) = "ok"
    THEN SameKind(o, lst)
    ELSE [cls |-> "ValueError", parent |-> "None", shape |-> <<>>, value |-> <<>>]

\* the variant that conjugates the components and keeps their order
conjugate_in_place(o) ==
    SameKind(o, [k \in 1..Len(o.value) |-> Tableau_conjugate(o.value[k])])

\* TableauTuple.conjugate
conjugate(o) ==
    LET conj == [k \in 1..Len(o.value) |->
                    Tableau_conjugate(o.value[Len(o.value) + 1 - k])]
        first == parent_call(o, conj)
    IN  IF first.cls # "ValueError" THEN first
        ELSE IF element_class_init(o, conj) = "ok" THEN SameKind(o, conj)
        ELSE [cls |-> "Tableau", parent |-> "Tableaux", shape |-> <<>>, value |-> conj]

\* the variant that keeps the entries below m only
StandardTableauTuple_restrict_below(o, m) ==
    SameKind(o, [k \in 1..Len(o.value) |-> Tableau_restrict(o.value[k], m - 1)])

\* StandardTableauTuple.restrict(m): both ways of building the answer give
\* an object with the list tab
StandardTableauTuple_restrict(o, m) ==
    LET lst == [k \in 1..Len(o.value) |-> Tableau_restrict(o.value[k], m)]
        first == parent_call(o, lst)
    IN  IF first.cls # "ValueError" THEN first
        ELSE LET res == StandardTableauTuple_classcall(lst)
             IN  IF res.result = "ok"
                 THEN [cls |-> res.obj.cls, parent |-> "all", shape |-> <<>>,
                       value |-> res.obj.value]
                 ELSE [cls |-> "ValueError", parent |-> "None", shape |-> <<>>,
                       value |-> <<>>]

\* StandardTableauTuple.to_chain
to_chain(o) ==
    LET n == ShapeSize(shape(o.value))
    IN  IF n = 0 THEN <<shape(o.value)>>
        ELSE [k \in 1..(n + 1) |-> shape(StandardTableauTuple_restrict(o, k - 1).value)]

\* tuple.index(k) of a row: the first position (0-based) holding k, -1 for
\* the ValueError raised when there is none
RowIndex(row, k) ==
    IF \E j \in 1..Len(row) : row[j] = k
    THEN SetMin({j \in 1..Len(row) : row[j] = k}) - 1
    ELSE -1

\* TableauTuple.content(k, multicharge): the rows are tried in reading order
\* and the first one that holds k answers
RECURSIVE ContentFrom(_, _, _, _, _)
ContentFrom(t, k, mc, l, r) ==
    IF l > Len(t) THEN [result |-> "ValueError", value |-> 0]
    ELSE IF r > Len(t[l]) THEN ContentFrom(t, k, mc, l + 1, 1)
    ELSE IF RowIndex(t[l][r], k) # -1
         THEN [result |-> "ok", value |-> mc[l] - (r - 1) + RowIndex(t[l][r], k)]
    ELSE ContentFrom(t, k, mc, l, r + 1)

\* the variant that counts the rows from 1
content_rows_from_one(t, k, mc) ==
    LET res == ContentFrom(t, k, mc, 1, 1)
    IN  IF res.result = "ok" THEN [res EXCEPT !.value = @ - 1] ELSE res

content(t, k, mc) == ContentFrom(t, k, mc, 1, 1)

\* TableauTuple.residue(k, e, multicharge)
residue(t, k, e, mc) ==
    LET res == ContentFrom(t, k, mc, 1, 1)
    IN  IF res.result = "ok" THEN [res EXCEPT !.value = BaseRing(e, @)] ELSE res

\* TableauTuple.reduced_row_word: Permutation(entries).inverse()
\* .reduced_word_lexmin(), which for every position i, from left to right,
\* lists i-1, i-2, ..., i-c, where c is the number of larger entries before
\* position i (the Lehmer cocode of the entries)
reduced_row_word(t) ==
    LET p == entries(t)
        cocode == [i \in 1..Len(p) |-> Cardinality({j \in 1..(i - 1) : p[j] > p[i]})]
    IN  Flatten([i \in 1..Len(p) |-> [x \in 1..cocode[i] |-> i - x]])

\* shape.initial_tableau(): 1, 2, ..., n along the rows
initial_tableau(sh) == tableau_from_list(sh, InitialTab(sh))

\* PartitionTuple._initial_degree(e, multicharge): the sum of m // e over
\* the rows m of all components when e > 0, plus one for every cell and
\* every later component whose multicharge has the residue of the cell
initial_degree(sh, e, mc) ==
    LET rows == IF e = 0 THEN 0
                ELSE SumSeq([k \in 1..Len(sh) |->
                                SumSeq([r \in 1..Len(sh[k]) |-> sh[k][r] \div e])])
        cs == CellsInOrder(cells(sh))
    IN  rows + SumSeq([j \in 1..Len(cs) |->
                          Cardinality({l \in (cs[j][1] + 2)..Len(sh) :
                              cell_residue(e, mc, cs[j]) = BaseRing(e, mc[l])})])

\* res.swap_residues(r, r + 1)
swap_residues(res, i, j) == [res EXCEPT ![i] = res[j], ![j] = res[i]]

\* the variant that leaves the residues where they are
DegreeFold_no_swap(word, res, deg, e) ==
    LET Step(d, r) == IF res[r] = res[r + 1] THEN d - 2
                      ELSE IF \/ res[r] = BaseRing(e, res[r + 1] + 1)
                              \/ res[r] = BaseRing(e, res[r + 1] - 1)
                      THEN d + (IF e = 2 THEN 2 ELSE 1)
                      ELSE d
        F[k \in 0..Len(word)] == IF k = 0 THEN deg ELSE Step(F[k - 1], word[k])
    IN  F[Len(word)]

\* the loop of degree over the reduced row word, from the letters of word on
RECURSIVE DegreeFold(_, _, _, _)
DegreeFold(word, res, deg, e) ==
    IF Len(word) = 0 THEN deg
    ELSE LET r == word[1]
             d == IF res[r] = res[r + 1] THEN deg - 2
                  ELSE IF \/ res[r] = BaseRing(e, res[r + 1] + 1)
                          \/ res[r] = BaseRing(e, res[r + 1] - 1)
                  THEN deg + (IF e = 2 THEN 2 ELSE 1)
                  ELSE deg
         IN  DegreeFold(Tail(word), swap_residues(res, r, r + 1), d, e)

\* RowStandardTableauTuple.degree(e, multicharge)
degree(t, e, mc) ==
    DegreeFold(reduced_row_word(t),
               residue_sequence(initial_tableau(shape(t)), e, mc),
               initial_degree(shape(t), e, mc), e)

Conjugate ==
    /\ m_calls \in {<<>>, <<"conjugate">>}
    /\ m_obj.cls # "Tableau"
    /\ m_calls' = Append(m_calls, "conjugate")
    /\ m_args' = <<>>
    /\ m_out' = conjugate(m_obj)
    /\ m_obj' = m_out'
    /\ UNCHANGED <<m_self, shapeVars, consVars, addVars, resVars>>

ToChain ==
    /\ m_calls = <<>>
    /\ m_obj.cls = "StandardTableauTuple"
    /\ m_calls' = <<"to_chain">>
    /\ m_args' = <<>>
    /\ m_out' = to_chain(m_obj)
    /\ UNCHANGED <<m_self, m_obj, shapeVars, consVars, addVars, resVars>>

Content ==
    /\ m_calls = <<>>
    /\ \E k \in 0..(Len(entries(m_obj.value)) + 1) :
       \E mc \in Multicharges(Len(m_obj.value), 0) :
            /\ m_args' = [k |-> k, e |-> 0, multicharge |-> mc]
            /\ m_out' = content(m_obj.value, k, mc)
    /\ m_calls' = <<"content">>
    /\ UNCHANGED <<m_self, m_obj, shapeVars, consVars, addVars, resVars>>

Residue ==
    /\ m_calls = <<>>
    /\ \E k \in 0..(Len(entries(m_obj.value)) + 1) :
       \E e \in ResChars :
       \E mc \in Multicharges(Len(m_obj.value), e) :
            /\ m_args' = [k |-> k, e |-> e, multicharge |-> mc]
            /\ m_out' = residue(m_obj.value, k, e, mc)
    /\ m_calls' = <<"residue">>
    /\ UNCHANGED <<m_self, m_obj, shapeVars, consVars, addVars, resVars>>

ResidueSequence ==
    /\ m_calls = <<>>
    /\ \E e \in ResChars :
       \E mc \in Multicharges(Len(m_obj.value), e) :
            /\ m_args' = [k |-> 0, e |-> e, multicharge |-> mc]
            /\ m_out' = residue_sequence(m_obj.value, e, mc)
    /\ m_calls' = <<"residue_sequence">>
    /\ UNCHANGED <<m_self, m_obj, shapeVars, consVars, addVars, resVars>>

\* the variant in which the list handed out is the one self keeps
to_list_shared(o) == [shared |-> TRUE, value |-> o.value]

\* self.to_list(): [t.to_list() for t in self], lists made for the caller,
\* so that what is written into them does not reach self
to_list(o) == [shared |-> FALSE, value |-> o.value]

\* the end of add_entry: "try and return a tableau belonging to the same
\* category"
add_entry_return(o, lst) ==
    LET first == parent_call(o, lst)
    IN  IF first.cls # "ValueError" THEN first
        ELSE IF element_class_init(o, lst) = "ok" THEN SameKind(o, lst)
        ELSE [cls |-> "TableauTuple", parent |-> "TableauTuples", shape |-> <<>>,
              value |-> lst]

\* TableauTuple.restrict(m), which RowStandardTableauTuple inherits
TableauTuple_restrict(o, m) ==
    LET lst == [k \in 1..Len(o.value) |-> Tableau_restrict(o.value[k], m)]
        first == parent_call(o, lst)
    IN  IF first.cls # "ValueError" THEN first
        ELSE LET res == RowStandardTableauTuple_classcall(lst)
             IN  IF res.result = "ok"
                 THEN [cls |-> res.obj.cls, parent |-> "all", shape |-> <<>>,
                       value |-> res.obj.value]
                 ELSE [cls |-> "TableauTuple", parent |-> "TableauTuples",
                       shape |-> <<>>, value |-> lst]

\* TableauTuple.symmetric_group_action_on_entries(w): w is extended by the
\* identity to the size of self and applied to every entry
symmetric_group_action_on_entries(o, w) ==
    LET n == Len(entries(o.value))
        wn == [i \in 1..n |-> IF i <= Len(w) THEN w[i] ELSE i]
        lst == [k \in 1..Len(o.value) |->
                   [r \in 1..Len(o.value[k]) |->
                       [c \in 1..Len(o.value[k][r]) |-> wn[o.value[k][r][c]]]]]
        first == parent_call(o, lst)
    IN  IF first.cls # "ValueError" THEN first
        ELSE [cls |-> "TableauTuple", parent |-> "TableauTuples", shape |-> <<>>,
              value |-> lst]

\* t.add_entry(cell, m): the list of to_list() is written into; self changes
\* with it only if the list is shared with self
AddEntryOn ==
    /\ m_calls = <<>>
    /\ \E cell \in AddCells(1) :
       \E m \in {0, Len(entries(m_obj.value)) + 1} :
       \E lst \in {to_list(m_obj)} :
       \E res \in {add_entry(lst.value, cell, m)} :
            /\ m_args' = [cell |-> cell, m |-> m]
            /\ m_out' = IF res.result = "ok"
                        THEN add_entry_return(m_obj, res.tab)
                        ELSE [cls |-> "IndexError", parent |-> "None",
                              shape |-> <<>>, value |-> <<>>]
            /\ m_self' = IF lst.shared /\ res.result = "ok"
                         THEN [m_self EXCEPT !.value = res.tab]
                         ELSE m_self
            /\ m_obj' = m_self'
    /\ m_calls' = <<"add_entry">>
    /\ UNCHANGED <<shapeVars, consVars, addVars, resVars>>

\* t.restrict(m), and restrict(m) again on what it returned; m runs up to
\* one more than the size of t
Restrict ==
    /\ m_calls \in {<<>>, <<"restrict">>}
    /\ m_obj.cls \in {"StandardTableauTuple", "RowStandardTableauTuple"}
    /\ \E m \in 0..(Len(entries(m_self.value)) + 1) :
            /\ m_args' = [m |-> m,
                          ms |-> IF m_calls = <<>> THEN <<m>> ELSE Append(m_args.ms, m)]
            /\ m_out' = IF m_obj.cls = "StandardTableauTuple"
                        THEN StandardTableauTuple_restrict(m_obj, m)
                        ELSE TableauTuple_restrict(m_obj, m)
    /\ m_obj' = m_out'
    /\ m_calls' = Append(m_calls, "restrict")
    /\ UNCHANGED <<m_self, shapeVars, consVars, addVars, resVars>>

SymmetricGroupAction ==
    /\ m_calls = <<>>
    /\ \E j \in 0..Len(entries(m_obj.value)) : \E w \in Perms(j) :
            /\ m_args' = [w |-> w]
            /\ m_out' = symmetric_group_action_on_entries(m_obj, w)
    /\ m_calls' = <<"symmetric_group_action_on_entries">>
    /\ UNCHANGED <<m_self, m_obj, shapeVars, consVars, addVars, resVars>>

Degree ==
    /\ m_calls = <<>>
    /\ \E e \in ResChars :
       \E mc \in Multicharges(Len(m_obj.value), e) :
            /\ m_args' = [k |-> 0, e |-> e, multicharge |-> mc]
            /\ m_out' = degree(m_obj.value, e, mc)
    /\ m_calls' = <<"degree">>
    /\ UNCHANGED <<m_self, m_obj, shapeVars, consVars, addVars, resVars>>

MethInit ==
    /\ m_self \in {[cls |-> i.cls, parent |-> i.parent, shape |-> shape(i.value),
                    value |-> i.value] : i \in MethInputs}
    /\ m_obj = m_self
    /\ m_calls = <<>>
    /\ m_args = <<>>
    /\ m_out = "None"
    /\ ShapeIdle /\ ConsIdle /\ AddIdle /\ ResIdle

MethNext ==
    \/ Conjugate \/ ToChain \/ Content \/ Residue \/ ResidueSequence
    \/ AddEntryOn \/ Restrict \/ SymmetricGroupAction \/ Degree

SpecMeth == MethInit /\ [][MethNext]_vars

\* a tableau tuple on which methods are called, or a traversal of the
\* tableau tuples of a shape
FrameInit == MethInit \/ ShapeInit

FrameNext ==
    \/ kind = "idle" /\ MethNext
    \/ kind # "idle" /\ ShapeNext

SpecFrame == FrameInit /\ [][FrameNext]_vars

(***************************************************************************)
(* StandardTableauTuples_shape.last, called on the enumerator while one of *)
(* its traversals runs.  The conjugate of a partition tuple and first()    *)
(* are those of the partition tuple and of the enumerated set.             *)
(***************************************************************************)
\* the conjugate of one partition: the lengths of its columns
Partition_conjugate(p) ==
    [j \in 1..(IF Len(p) = 0 THEN 0 ELSE p[1]) |->
        Cardinality({r \in 1..Len(p) : p[r] >= j})]

\* the variant that keeps the order of the components
PartitionTuple_conjugate_in_place(m) ==
    [k \in 1..Len(m) |-> Partition_conjugate(m[k])]

\* PartitionTuple.conjugate: the components reversed, each one conjugated
PartitionTuple_conjugate(m) ==
    [k \in 1..Len(m) |-> Partition_conjugate(m[Len(m) + 1 - k])]

\* first() of StandardTableauTuples_shape(m): the first tableau its iterator
\* yields, an element of that enumerator
first(m) ==
    [cls |-> "StandardTableauTuple", parent |-> "shape", shape |-> m,
     value |-> tableau_from_list(m, InitialTab(m))]

\* StandardTableauTuples(self.shape().conjugate()).first().conjugate()
last(m) == conjugate(first(PartitionTuple_conjugate(m)))

Last ==
    /\ kind = "std" /\ m_calls = <<>>
    /\ m_out' = last(mu)
    /\ m_calls' = <<"last">>
    /\ UNCHANGED <<shapeVars, m_self, m_obj, m_args, consVars, addVars, resVars>>

LastInit ==
    /\ kind = "std"
    /\ mu \in Shapes
    /\ pc = "new"
    /\ tab = <<>> /\ cols = <<>> /\ mins = <<>> /\ lin = <<>>
    /\ yielded = <<>>
    /\ m_self = "idle" /\ m_obj = "idle" /\ m_args = "idle"
    /\ m_calls = <<>> /\ m_out = "None"
    /\ ConsIdle /\ AddIdle /\ ResIdle

LastNext == StdStart \/ StdAdvance \/ StdFinish \/ Last

SpecLast == LastInit /\ [][LastNext]_vars

(***************************************************************************)
(* StandardTableauTuples.__getitem__ and                                   *)
(* RowStandardTableauTuples.__getitem__ with a slice start:stop, on the    *)
(* enumerators of a fixed shape (finite) and on StandardTableauTuples()    *)
(* (infinite).  "for t in self" draws from the generator of the            *)
(* enumerator; None is written -1.                                         *)
(***************************************************************************)
GetMaxSize == 3
GetMaxStop == 4

None == -1

\* the tableaux StandardTableauTuples() yields first, as its __iter__ lists
\* them
AllItems ==
    << <<>>,
       << <<<<1>>>> >>,
       << <<>>, <<>> >>,
       << <<<<1, 2>>>> >>,
       << <<<<1>>, <<2>>>> >>,
       << <<<<1>>>>, <<>> >>,
       << <<>>, <<<<1>>>> >>,
       << <<>>, <<>>, <<>> >> >>

\* self.is_finite()
is_finite(k) == k # "all"

\* the variant that returns tabs whatever count is
getitem_after_loop_unchecked(count, stop, tabs) ==
    [res |-> "return", tabs |-> tabs]

\* the end of __getitem__:
\*     if count == stop or stop is None: return tabs
\*     raise IndexError('value out of range')
getitem_after_loop(count, stop, tabs) ==
    IF count = stop \/ stop = None
    THEN [res |-> "return", tabs |-> tabs]
    ELSE [res |-> "IndexError", tabs |-> <<>>]

\* the slice is read: ValueError for an open slice of an infinite set
GetItemCall ==
    /\ m_calls = <<>>
    /\ m_calls' = <<"__getitem__">>
    /\ m_out' = IF m_args.stop = None /\ ~is_finite(kind)
                THEN [res |-> "ValueError", tabs |-> <<>>]
                ELSE [res |-> "loop", tabs |-> <<>>]
    /\ UNCHANGED <<m_self, m_obj, m_args, shapeVars, consVars, addVars, resVars>>

\* next() on the generator of StandardTableauTuples()
AllFetch ==
    /\ kind = "all"
    /\ Len(yielded) < Len(AllItems)
    /\ yielded' = Append(yielded, AllItems[Len(yielded) + 1])
    /\ UNCHANGED <<kind, mu, pc, tab, cols, mins, lin,
                   consVars, addVars, resVars, methVars>>

\* "for t in self": the loop asks the generator for the next tableau
GetItemFetch ==
    /\ m_calls = <<"__getitem__">> /\ m_out.res = "loop"
    /\ Len(yielded) = m_obj.count
    /\ \/ AllFetch
       \/ kind # "all" /\ pc # "done" /\ ShapeNext

\* the body of the loop for the tableau t just drawn
GetItemBody ==
    /\ m_calls = <<"__getitem__">> /\ m_out.res = "loop"
    /\ Len(yielded) > m_obj.count
    /\ \E t \in {yielded[m_obj.count + 1]} :
        IF m_obj.count = m_args.stop
        THEN /\ m_out' = getitem_after_loop(m_obj.count, m_args.stop, m_obj.tabs)
             /\ UNCHANGED m_obj
        ELSE /\ m_obj' = [count |-> m_obj.count + 1,
                          tabs |-> IF m_obj.count >= m_args.start
                                   THEN Append(m_obj.tabs, t) ELSE m_obj.tabs]
             /\ UNCHANGED m_out
    /\ UNCHANGED <<m_self, m_calls, m_args, shapeVars, consVars, addVars, resVars>>

\* the generator has returned: the loop ends
GetItemEnd ==
    /\ m_calls = <<"__getitem__">> /\ m_out.res = "loop"
    /\ kind # "all" /\ pc = "done"
    /\ Len(yielded) = m_obj.count
    /\ m_out' = getitem_after_loop(m_obj.count, m_args.stop, m_obj.tabs)
    /\ UNCHANGED <<m_self, m_obj, m_calls, m_args, shapeVars, consVars, addVars, resVars>>

GetItemInit ==
    /\ kind \in {"std", "rowstd", "all"}
    /\ mu \in IF kind = "all" THEN {<<>>} ELSE PartitionTuplesUpTo(2, GetMaxSize)
    /\ pc = "new"
    /\ tab = <<>> /\ cols = <<>> /\ mins = <<>> /\ lin = <<>>
    /\ yielded = <<>>
    /\ m_self = "idle"
    /\ m_obj = [count |-> 0, tabs |-> <<>>]
    /\ m_calls = <<>>
    /\ m_args \in [start : 0..GetMaxStop, stop : {None} \cup 0..GetMaxStop]
    /\ m_out = [res |-> "new", tabs |-> <<>>]
    /\ ConsIdle /\ AddIdle /\ ResIdle

GetItemNext == GetItemCall \/ GetItemFetch \/ GetItemBody \/ GetItemEnd

SpecGetItem == GetItemInit /\ [][GetItemNext]_vars

(***************************************************************************)
(* "t in StandardTableauTuples()" and "t in RowStandardTableauTuples()"    *)
(* beside the checked constructors, on lists of at least two components.   *)
(***************************************************************************)
MemMaxLevel == 2
MemMaxSize == 2

\* t in StandardTableauTuples() / t in RowStandardTableauTuples() for a list
\* t: the isinstance branch is not taken, every component is in Tableaux()
Contains ==
    /\ m_calls = <<>>
    /\ m_out' = [in |-> IF cons_cls = "StandardTableauTuple"
                        THEN StandardTableauTuples_contains(cons_t)
                        ELSE RowStandardTableauTuples_contains(cons_t)]
    /\ m_calls' = <<"__contains__">>
    /\ UNCHANGED <<m_self, m_obj, m_args, shapeVars, consVars, addVars, resVars>>

MemberInit ==
    /\ cons_cls \in {"StandardTableauTuple", "RowStandardTableauTuple"}
    /\ cons_t \in {t \in ConsInputs(MemMaxLevel, MemMaxSize) : Len(t) >= 2}
    /\ cons_result = "pending"
    /\ cons_obj = "None"
    /\ m_self = "None" /\ m_obj = "None" /\ m_args = "None"
    /\ m_calls = <<>>
    /\ m_out = [in |-> FALSE]
    /\ ShapeIdle /\ AddIdle /\ ResIdle

MemberNext == Construct \/ Contains

SpecMember == MemberInit /\ [][MemberNext]_vars

(***************************************************************************)
(* InfinityCrystalOfTableaux.Element.seg in type D_n.  A tableau is the    *)
(* list of its rows, a barred letter written as a negative integer; rows   *)
(* are numbered from 1, so the code's r + 1 reads r.                       *)
(***************************************************************************)
SegMaxRank == 4
SegMaxExtra == 3

\* the letters that may follow the i-boxes of row i: i+1 .. n and the barred
\* letters down to the bar of i
RowLetters(n, i) == ((i + 1)..n) \cup {-k : k \in i..n}

\* the place of a letter in 1 < ... < n, bar n < ... < bar 1 (n and bar n are
\* never in one row)
LetterKey(n, x) == IF x > 0 THEN x ELSE 2 * n + 1 + x

\* the weakly increasing words of at most b letters that may end row i
RowExtras(n, i, b) ==
    UNION {{e \in [1..k -> RowLetters(n, i)] :
                /\ \A j \in 1..(k - 1) : LetterKey(n, e[j]) <= LetterKey(n, e[j + 1])
                /\ ~(n \in Range(e) /\ -n \in Range(e))} : k \in 0..b}

RECURSIVE ExtrasFrom(_, _, _)
ExtrasFrom(n, i, b) ==
    IF i = n THEN {<<>>}
    ELSE UNION {{<<e>> \o rest : rest \in ExtrasFrom(n, i + 1, b - Len(e))} :
                    e \in RowExtras(n, i, b)}

RECURSIVE RowLen(_, _, _)
RowLen(n, ex, i) == IF i = n THEN 0 ELSE RowLen(n, ex, i + 1) + 1 + Len(ex[i])

\* the marginally large tableau of n - 1 rows whose row i ends with ex[i]:
\* row i has one more i-box than row i + 1 has boxes
MarginallyLarge(n, ex) ==
    [i \in 1..(n - 1) |-> [j \in 1..(RowLen(n, ex, i + 1) + 1) |-> i] \o ex[i]]

\* the tableaux of the crystal of type D_n with at most b boxes beyond the
\* i-boxes of the rows
InfinityTableauxTypeD(n, b) == {MarginallyLarge(n, ex) : ex \in ExtrasFrom(n, 1, b)}

\* the first loop of seg: [r, tab[r][c]] is appended, once, for every entry
\* other than r + 1
RECURSIVE seg_segments(_, _, _, _)
seg_segments(T, r, c, segments) ==
    IF r > Len(T) THEN segments
    ELSE IF c > Len(T[r]) THEN seg_segments(T, r + 1, 1, segments)
    ELSE seg_segments(T, r, c + 1,
            IF T[r][c] # r /\ <<r, T[r][c]>> \notin Range(segments)
            THEN Append(segments, <<r, T[r][c]>>)
            ELSE segments)

\* the list add of the branch of type D: [r, n] is appended, once, for a row
\* whose last entry is the bar of r + 1 and that has an entry other than n
\* and bar n
RECURSIVE seg_add(_, _, _, _, _)
seg_add(T, n, r, c, add) ==
    IF r > Len(T) THEN add
    ELSE IF T[r][Len(T[r])] # -r \/ c > Len(T[r]) THEN seg_add(T, n, r + 1, 1, add)
    ELSE seg_add(T, n, r, c + 1,
            IF T[r][c] # n /\ T[r][c] # -n /\ <<r, n>> \notin Range(add)
            THEN Append(add, <<r, n>>)
            ELSE add)

\* the branch of type D: when add is not empty, one [r, n] is appended to
\* segments, r being where the loop over the rows stopped, the last row
seg_type_D(T, n, segments) ==
    IF Len(seg_add(T, n, 1, 1, <<>>)) > 0
    THEN Append(segments, <<Len(T), n>>)
    ELSE segments

\* seg() of a tableau of type D_n: the branches of types B and G are not taken
seg(T, n) == Len(seg_type_D(T, n, seg_segments(T, 1, 1, <<>>)))

Seg ==
    /\ m_calls = <<>>
    /\ m_out' = seg(m_self.tab, m_self.n)
    /\ m_calls' = <<"seg">>
    /\ UNCHANGED <<m_self, m_obj, m_args, shapeVars, consVars, addVars, resVars>>

SegInit ==
    /\ \E n \in 4..SegMaxRank : \E T \in InfinityTableauxTypeD(n, SegMaxExtra) :
            m_self = [n |-> n, tab |-> T]
    /\ m_obj = "None" /\ m_args = "None"
    /\ m_calls = <<>>
    /\ m_out = None
    /\ ShapeIdle /\ ConsIdle /\ AddIdle /\ ResIdle

SegNext == Seg

SpecSeg == SegInit /\ [][SegNext]_vars

(***************************************************************************)
(* What it is for a filling to be row standard or standard.                *)
(***************************************************************************)
RowsIncrease(t) ==
    \A c \in 1..Len(t) : \A r \in 1..Len(t[c]) :
        \A j \in 1..(Len(t[c][r]) - 1) : t[c][r][j] < t[c][r][j + 1]

ColumnsIncrease(t) ==
    \A c \in 1..Len(t) : \A r \in 1..(Len(t[c]) - 1) :
        \A j \in 1..Len(t[c][r + 1]) : t[c][r][j] < t[c][r + 1][j]

EntriesOnceEach(t) ==
    LET e == entries(t)
    IN  /\ Range(e) = 1..Len(e)
        /\ \A i, j \in 1..Len(e) : e[i] = e[j] => i = j

IsRowStandardFilling(t) == RowsIncrease(t) /\ EntriesOnceEach(t)

IsStandardFilling(t) == IsRowStandardFilling(t) /\ ColumnsIncrease(t)

NoRepeats(ys) == \A i, j \in 1..Len(ys) : ys[i] = ys[j] => i = j

EmptyTableauTuple(l) == [c \in 1..l |-> <<>>]

(***************************************************************************)
(* C1: a full traversal of the standard shape enumerator yields as many    *)
(* tableaux as cardinality() says, n! * prod_k(|Std(mu_k)| / |mu_k|!).     *)
(***************************************************************************)
C1_CountIsCardinality ==
    (kind = "std" /\ pc = "done")
        => Len(yielded) = StandardTableauTuples_shape_cardinality(mu)

C1_Witness ==
    /\ kind = "std" /\ pc = "done"
    /\ Len(yielded) >= 8
    /\ Cardinality({c \in 1..Len(mu) : Len(mu[c]) > 0}) >= 2

(***************************************************************************)
(* C2: a traversal of a shape enumerator (standard or row standard) never  *)
(* yields the same tableau twice, and every tableau it yields has shape mu.*)
(***************************************************************************)
C2_DistinctOfShape ==
    /\ NoRepeats(yielded)
    /\ \A i \in 1..Len(yielded) : shape(yielded[i]) = mu

C2_Witness ==
    /\ kind = "rowstd" /\ pc = "done"
    /\ Len(yielded) >= 12
    /\ \E c \in 1..Len(mu) : Len(mu[c]) >= 2

(***************************************************************************)
(* C3: every tableau yielded by the standard shape enumerator is standard: *)
(* entries 1..n once each, rows and columns strictly increasing.           *)
(***************************************************************************)
C3_YieldedStandard ==
    kind = "std" => \A i \in 1..Len(yielded) : IsStandardFilling(yielded[i])

C3_Witness ==
    /\ kind = "std" /\ pc = "done"
    /\ Len(yielded) >= 2
    /\ \E c \in 1..Len(mu) : Len(mu[c]) >= 2 /\ mu[c][1] >= 2

(***************************************************************************)
(* C4: whenever the standard traversal stands before a descent r,          *)
(* max_row_in_component returns a value of tab (it does not fall out of    *)
(* its loop) and every leftmost scan stops inside the list; the generator  *)
(* never raises.                                                           *)
(***************************************************************************)
C4_AdvanceNeverFails ==
    kind = "std" =>
        /\ pc # "error"
        /\ (pc \in {"first", "loop"} /\ Descent(CurCols) < Cardinality(DOMAIN CurCols))
            => LET r == Descent(CurCols)
               IN  /\ max_row_in_component(mu, tab, CurCols, r) \in Range(tab)
                   /\ ~AdvanceStep(mu, tab, CurCols, CurMins, r).err

\* a descent whose s lies in an earlier component than r
C4_Witness ==
    /\ kind = "std" /\ pc = "loop"
    /\ Descent(cols) < Cardinality(DOMAIN cols)
    /\ LET r == Descent(cols)
           c == component(mu)[Index(tab, r)]
           s == max_row_in_component(mu, tab, cols, r)
       IN  /\ s \in Range(tab)
           /\ component(mu)[Index(tab, s)] < c

(***************************************************************************)
(* C5: a traversal of the standard shape enumerator that is run to the end *)
(* terminates, and for a shape with only empty components it yields the    *)
(* empty tableau tuple alone.                                              *)
(***************************************************************************)
C5_Terminates ==
    /\ (kind = "std") => <>(pc = "done")
    /\ [](kind = "std" /\ pc = "done" /\ ShapeSize(mu) = 0
            => yielded = <<EmptyTableauTuple(Len(mu))>>)

C5_Witness ==
    /\ kind = "std" /\ pc = "done"
    /\ Len(yielded) >= 3

(***************************************************************************)
(* C8: a full traversal of the row standard shape enumerator yields        *)
(* exactly the row standard fillings of mu, each once, and their number is *)
(* cardinality() = n! / prod(row_length!).                                 *)
(***************************************************************************)
RowStandardFillings(m) ==
    {t \in {[c \in 1..Len(m) |->
               [r \in 1..Len(m[c]) |->
                  [j \in 1..m[c][r] |->
                     p[SumSeq([k \in 1..(c - 1) |-> SumSeq(m[k])])
                       + SumSeq([k \in 1..(r - 1) |-> m[c][k]]) + j]]]] :
            p \in Perms(ShapeSize(m))} :
        RowsIncrease(t)}

C8_RowStandardExactly ==
    (kind = "rowstd" /\ pc = "done") =>
        /\ Range(yielded) = RowStandardFillings(mu)
        /\ NoRepeats(yielded)
        /\ Len(yielded) = RowStandardTableauTuples_shape_cardinality(mu)
        /\ Len(yielded) = factorial(ShapeSize(mu))
                \div prod(Flatten([c \in 1..Len(mu) |->
                        [r \in 1..Len(mu[c]) |-> factorial(mu[c][r])]]))

C8_Witness ==
    /\ kind = "rowstd" /\ pc = "done"
    /\ Len(yielded) >= 6
    /\ \E c \in 1..Len(mu) : \E r \in 1..Len(mu[c]) : mu[c][r] >= 2
    /\ Cardinality({c \in 1..Len(mu) : Len(mu[c]) > 0}) >= 2

(***************************************************************************)
(* C9: a checked construction succeeds exactly when every row increases,   *)
(* the entries are 1..n once each and (standard only) every column         *)
(* increases; otherwise it raises the ValueError of the first condition    *)
(* violated in the order rows, bijection, columns, and returns no object.  *)
(***************************************************************************)
ExpectedOfConstruction(cls, t) ==
    IF ~RowsIncrease(t) THEN "tableaux must be row strict"
    ELSE IF ~EntriesOnceEach(t) THEN "entries must be in bijection with {1,2,...,n}"
    ELSE IF cls = "StandardTableauTuple" /\ ~ColumnsIncrease(t)
         THEN "tableaux must be column strict"
    ELSE "ok"

C9_ConstructionChecked ==
    cons_result # "pending" =>
        /\ cons_result = ExpectedOfConstruction(cons_cls, cons_t)
        /\ cons_result # "ok" => cons_obj = "None"

\* C9 restricted to tuples of two or more components, which reach __init__
C9_FromLevelTwo ==
    (cons_result # "pending" /\ Len(cons_t) >= 2) =>
        /\ cons_result = ExpectedOfConstruction(cons_cls, cons_t)
        /\ cons_result # "ok" => cons_obj = "None"

\* two violated conditions at once: the rows are reported, not the entries
C9_FromLevelTwo_Witness ==
    /\ Len(cons_t) >= 2
    /\ cons_result = "tableaux must be row strict"
    /\ ~EntriesOnceEach(cons_t)

(***************************************************************************)
(* C10: add_entry(cell, m) overwrites the entry when cell is a cell of the *)
(* shape, extends the tableau by the cell when cell is addable, and raises *)
(* IndexError for every other integer triple.                              *)
(***************************************************************************)
InShape(sh, cell) ==
    /\ cell[1] \in 0..(Len(sh) - 1)
    /\ cell[2] \in 0..(Len(sh[cell[1] + 1]) - 1)
    /\ cell[3] \in 0..(sh[cell[1] + 1][cell[2] + 1] - 1)

\* the cell continues a row, or starts the row below the last, and the
\* component stays a partition
IsAddable(sh, cell) ==
    /\ cell[1] \in 0..(Len(sh) - 1)
    /\ LET nu == sh[cell[1] + 1]
           r == cell[2]
           c == cell[3]
       IN  \/ r = Len(nu) /\ c = 0
           \/ /\ r \in 0..(Len(nu) - 1)
              /\ c = nu[r + 1]
              /\ IsPartition([nu EXCEPT ![r + 1] = @ + 1])

PlusCell(sh, cell) ==
    IF cell[2] = Len(sh[cell[1] + 1])
    THEN [sh EXCEPT ![cell[1] + 1] = Append(@, 1)]
    ELSE [sh EXCEPT ![cell[1] + 1][cell[2] + 1] = @ + 1]

\* t and u agree on every cell of t other than cell
AgreeOffCell(t, u, cell) ==
    \A k \in 1..Len(t) : \A r \in 1..Len(t[k]) : \A c \in 1..Len(t[k][r]) :
        <<k - 1, r - 1, c - 1>> # cell => u[k][r][c] = t[k][r][c]

AddEntryContract ==
    LET sh == shape(add_t)
    IN  IF InShape(sh, add_cell)
        THEN /\ add_result = "ok"
             /\ shape(add_out) = sh
             /\ add_out[add_cell[1] + 1][add_cell[2] + 1][add_cell[3] + 1] = add_m
             /\ AgreeOffCell(add_t, add_out, add_cell)
        ELSE IF IsAddable(sh, add_cell)
        THEN /\ add_result = "ok"
             /\ shape(add_out) = PlusCell(sh, add_cell)
             /\ add_out[add_cell[1] + 1][add_cell[2] + 1][add_cell[3] + 1] = add_m
             /\ AgreeOffCell(add_t, add_out, add_cell)
        ELSE add_result = "IndexError"

C10_AddEntryContract == add_result # "pending" => AddEntryContract

\* C10 restricted to triples without a negative coordinate
C10_NonNegativeCells ==
    (add_result # "pending" /\ \A i \in 1..3 : add_cell[i] >= 0) => AddEntryContract

C10_NonNegativeCells_Witness ==
    /\ add_result = "ok"
    /\ \A i \in 1..3 : add_cell[i] >= 0
    /\ add_cell[2] = Len(add_t[add_cell[1] + 1])
    /\ add_cell[2] > 0

(***************************************************************************)
(* C6: every tableau yielded by a residue enumerator is a standard tableau *)
(* tuple of the enumerator's level and size whose residue sequence, for    *)
(* the enumerator's e and multicharge, is the target residue sequence.     *)
(***************************************************************************)
C6_YieldedHaveResidue ==
    \A i \in 1..Len(res_yielded) :
        LET t == res_yielded[i]
        IN  /\ IsStandardFilling(t)
            /\ Len(t) = Len(res_mc)
            /\ Len(entries(t)) = Len(res_seq)
            /\ residue_sequence(t, res_e, res_mc) = res_seq

\* both enumerators have yielded tableaux with entries in both components
C6_Witness ==
    /\ res_cls = "residue" /\ res_pc = "done"
    /\ Len(res_seq) = ResMaxSize
    /\ Len(res_yielded) >= 3
    /\ \E i \in 1..Len(res_yielded) : \A k \in 1..2 : Len(res_yielded[i][k]) > 0

(***************************************************************************)
(* C7: a standard tableau tuple t of the enumerator's level and size is    *)
(* yielded by a full traversal exactly when "t in" the enumerator holds:   *)
(* its residue sequence is the target and, for the enumerator of a fixed   *)
(* shape, it has that shape.                                               *)
(***************************************************************************)
\* the standard tableau tuples of level 2 and size n: the standard fillings
\* of the shapes of that size
StandardFillings ==
    [n \in 0..ResMaxSize |->
        UNION {{t \in {tableau_from_list(m, [i \in 0..(n - 1) |-> p[i + 1]]) :
                            p \in Perms(n)} :
                    IsStandardFilling(t)} :
               m \in ResShapes[n]}]

C7_YieldedIffContained ==
    res_pc = "done" =>
        \A t \in StandardFillings[Len(res_seq)] :
            (\E i \in 1..Len(res_yielded) : res_yielded[i] = t) <=> residue_contains(t)

\* a traversal of the enumerator of a fixed shape that yields some but not
\* all standard tableaux of its shape
C7_Witness ==
    /\ res_cls = "residue_shape" /\ res_pc = "done"
    /\ Len(res_seq) = ResMaxSize
    /\ Len(res_yielded) >= 2
    /\ \E t \in StandardFillings[Len(res_seq)] :
            shape(t) = res_shape /\ ~residue_contains(t)

(***************************************************************************)
(* C11: conjugate reverses the order of the components and transposes      *)
(* each of them, and for a standard tableau tuple t, whatever its parent,  *)
(* t.conjugate().conjugate() == t.                                         *)
(***************************************************************************)
\* u is the transpose of the tableau s
IsTranspose(s, u) ==
    /\ Len(Flatten(s)) = Len(Flatten(u))
    /\ \A r \in 1..Len(s) : \A c \in 1..Len(s[r]) :
            c <= Len(u) /\ r <= Len(u[c]) /\ u[c][r] = s[r][c]

\* C11: conjugating a standard tableau tuple twice gives it back, and once
\* gives the transposed components in reversed order
C11_ConjugateInvolution ==
    (m_self.cls = "StandardTableauTuple" /\ Len(m_calls) > 0 /\ m_calls[1] = "conjugate") =>
        /\ m_out.cls = "StandardTableauTuple"
        /\ Len(m_out.value) = Len(m_self.value)
        /\ Len(m_calls) = 1 =>
                \A k \in 1..Len(m_self.value) :
                    IsTranspose(m_self.value[k], m_out.value[Len(m_self.value) + 1 - k])
        /\ Len(m_calls) = 2 => m_out.value = m_self.value

\* three components, the first unlike the last, one of them not symmetric
C11_Witness ==
    /\ m_self.cls = "StandardTableauTuple" /\ m_self.parent = "shape"
    /\ m_calls = <<"conjugate", "conjugate">>
    /\ Len(m_self.value) = 3
    /\ m_self.value[1] # m_self.value[3]
    /\ \E k \in 1..3 : Len(m_self.value[k]) = 1 /\ Len(m_self.value[k][1]) = 2

(***************************************************************************)
(* C12: for a standard tableau tuple t of size n, to_chain() is a list of  *)
(* n + 1 shapes from the all-empty shape of t's level to t.shape(), each   *)
(* step adding exactly the cell of t that holds k.                         *)
(***************************************************************************)
\* the cell <<comp, row, col>> (0-based) of t that holds k
CellOf(t, k) ==
    CHOOSE x \in cells(shape(t)) : t[x[1] + 1][x[2] + 1][x[3] + 1] = k

\* C12: to_chain() runs from the empty shape to the shape of t and its
\* k-th step adds the cell of k
C12_ChainAddsOneCell ==
    m_calls = <<"to_chain">> =>
        LET t == m_self.value
            n == Len(entries(t))
        IN  /\ Len(m_out) = n + 1
            /\ m_out[1] = [k \in 1..Len(t) |-> <<>>]
            /\ m_out[n + 1] = shape(t)
            /\ \A k \in 1..n :
                /\ IsAddable(m_out[k], CellOf(t, k))
                /\ m_out[k + 1] = PlusCell(m_out[k], CellOf(t, k))

C12_Witness ==
    /\ m_calls = <<"to_chain">>
    /\ Len(m_out) = MethMaxSize + 1
    /\ m_self.parent = "shape"
    /\ Cardinality({k \in 1..Len(m_self.value) : Len(m_self.value[k]) > 0}) >= 2
    /\ \E k \in 1..Len(m_self.value) : Len(m_self.value[k]) >= 2

(***************************************************************************)
(* C13: for a row standard tableau tuple t and k in the cell (comp, row,   *)
(* col), content(k, multicharge) = multicharge[comp] - row + col, residue  *)
(* is that value reduced mod e, and the k-th entry of residue_sequence is  *)
(* residue(k, e, multicharge); for k not in t both raise ValueError.       *)
(***************************************************************************)
ReducedMod(e, x) == IF e = 0 THEN x ELSE CHOOSE y \in 0..(e - 1) : (x - y) % e = 0

ContentOfCell(mc, x) == mc[x[1] + 1] - x[2] + x[3]

\* C13: content, residue and residue_sequence agree with
\* multicharge[comp] - row + col, and a missing k raises ValueError
C13_ContentAndResidue ==
    LET t == m_self.value
        n == Len(entries(t))
    IN  /\ (m_calls \in {<<"content">>, <<"residue">>} /\ m_args.k \in 1..n) =>
                /\ m_out.result = "ok"
                /\ m_out.value =
                    IF m_calls = <<"content">>
                    THEN ContentOfCell(m_args.multicharge, CellOf(t, m_args.k))
                    ELSE ReducedMod(m_args.e,
                            ContentOfCell(m_args.multicharge, CellOf(t, m_args.k)))
        /\ (m_calls \in {<<"content">>, <<"residue">>} /\ m_args.k \notin 1..n) =>
                m_out.result = "ValueError"
        /\ m_calls = <<"residue_sequence">> =>
                /\ Len(m_out) = n
                /\ \A k \in 1..n :
                    m_out[k] = residue(t, k, m_args.e, m_args.multicharge).value

\* a residue that differs from the content, of an entry below the first row
\* of a later component
C13_Witness ==
    /\ m_calls = <<"residue">>
    /\ m_out.result = "ok"
    /\ m_args.e = 3
    /\ LET x == CellOf(m_self.value, m_args.k)
       IN  /\ x[1] > 0 /\ x[2] > 0
           /\ m_out.value # ContentOfCell(m_args.multicharge, x)


(***************************************************************************)
(* C14: the constructors of StandardTableaux_residue_shape and of          *)
(* RowStandardTableauTuples_residue_shape raise ValueError when the length *)
(* of the residue sequence is not the size of the shape: the call ends     *)
(* with the error, no enumerator exists and nothing is ever yielded; when  *)
(* the sizes agree the constructor does not raise.                         *)
(***************************************************************************)
C14_SizeMismatchRaises ==
    (res_pc \notin {"idle", "call"}) =>
        IF Len(res_seq) # ShapeSize(res_shape)
        THEN res_pc = "ValueError" /\ res_frames = "None" /\ res_yielded = <<>>
        ELSE res_pc \in {"run", "done", "constructed"} /\ DOMAIN res_frames = 0..Len(res_seq)

C14_Witness ==
    /\ res_pc = "ValueError"
    /\ res_cls = "row_residue_shape"
    /\ Len(res_seq) = 2 /\ ShapeSize(res_shape) = 3


(***************************************************************************)
(* C15: a call of a factory in which the level, the size or the shape is   *)
(* given both positionally and by keyword, or in which a given level or    *)
(* size differs from the one of the given shape, or a given level is below *)
(* 1, or a given size is below 0, raises ValueError.  The first positional *)
(* argument is the level when it is an integer and the shape otherwise;    *)
(* the second positional argument is the size.                             *)
(***************************************************************************)
GivenLevels(a, kw) ==
    {x \in {kw.level} \cup (IF Len(a) >= 1 THEN {a[1]} ELSE {}) : IsInt(x)}

GivenSizes(a, kw) ==
    {x \in {kw.size} \cup (IF Len(a) >= 2 THEN {a[2]} ELSE {}) : IsInt(x)}

GivenShapes(a, kw) ==
    {x \in {kw.shape} \cup (IF Len(a) >= 1 THEN {a[1]} ELSE {}) : x.ty = "shape"}

GivenTwice(a, kw) ==
    \/ Cardinality(GivenLevels(a, kw)) > 1
       \/ (Len(a) >= 1 /\ IsInt(a[1]) /\ IsInt(kw.level))
    \/ Len(a) >= 2 /\ IsInt(a[2]) /\ IsInt(kw.size)
    \/ Len(a) >= 1 /\ a[1].ty = "shape" /\ kw.shape.ty = "shape"

Disagreeing(a, kw) ==
    \E x \in GivenShapes(a, kw) :
        /\ PartitionTuple_accepts(x)
        /\ \/ \E l \in GivenLevels(a, kw) : l.i # Len(x.sh)
           \/ \E n \in GivenSizes(a, kw) : n.i # ShapeSize(x.sh)

OutOfDomain(a, kw) ==
    \/ \E l \in GivenLevels(a, kw) : l.i < 1
    \/ \E n \in GivenSizes(a, kw) : n.i < 0

\* C15: an argument given twice, disagreeing with the shape or out of its
\* domain makes the factory raise ValueError
C15_FactoryRejects ==
    (cons_result # "pending") =>
        ((\/ GivenTwice(cons_t.args, cons_t.kwargs)
          \/ Disagreeing(cons_t.args, cons_t.kwargs)
          \/ OutOfDomain(cons_t.args, cons_t.kwargs))
            => cons_result = "ValueError")

\* C15, apart from the calls that give the shape first, the size second and
\* the size again by keyword
C15_FactoryRejectsOtherwise ==
    (/\ cons_result # "pending"
     /\ ~(/\ Len(cons_t.args) = 2
          /\ cons_t.args[1].ty = "shape"
          /\ IsInt(cons_t.kwargs.size)))
        => ((\/ GivenTwice(cons_t.args, cons_t.kwargs)
             \/ Disagreeing(cons_t.args, cons_t.kwargs)
             \/ OutOfDomain(cons_t.args, cons_t.kwargs))
               => cons_result = "ValueError")

C15_FactoryRejectsOtherwise_Witness ==
    /\ cons_result = "ValueError"
    /\ cons_t.args = <<FacInt(2), FacInt(1)>>
    /\ IsInt(cons_t.kwargs.size)
    /\ ~cons_t.kwargs.other


RECURSIVE TraverseFrom(_, _, _, _)
TraverseFrom(m, tb, cl, mn) ==
    LET r == Descent(cl)
        res == AdvanceStep(m, tb, cl, mn, r)
    IN  IF r >= Cardinality(DOMAIN cl) THEN <<>>
        ELSE IF res.err THEN <<>>
        ELSE <<tableau_from_list(m, res.tab)>> \o TraverseFrom(m, res.tab, res.cols, mn)

\* what one traversal run alone yields
SingleTraversal(m) ==
    <<tableau_from_list(m, InitialTab(m))>>
        \o TraverseFrom(m, InitialTab(m), InitialCols(m), InitialMins(m))

Below(x, y) == x[1] > y[1] \/ (x[1] = y[1] /\ x[2] > y[2])

DegreeOfCell(sh, e, mc, y) ==
    Cardinality({x \in addable_cells(sh) :
                    Below(x, y) /\ ReducedMod(e, ContentOfCell(mc, x))
                                    = ReducedMod(e, ContentOfCell(mc, y))})
    - Cardinality({x \in removable_cells(sh) :
                    Below(x, y) /\ ReducedMod(e, ContentOfCell(mc, x))
                                    = ReducedMod(e, ContentOfCell(mc, y))})

RecursiveDegree(t, e, mc) ==
    SumSeq([k \in 1..Len(entries(t)) |->
               DegreeOfCell(shape([c \in 1..Len(t) |-> Tableau_restrict(t[c], k)]),
                            e, mc, CellOf(t, k))])

\* C18: degree(e, multicharge) of a standard tableau tuple is its
\* recursively defined degree
C18_DegreeIsRecursiveDegree ==
    (m_calls = <<"degree">> /\ m_self.cls = "StandardTableauTuple") =>
        m_out = RecursiveDegree(m_self.value, m_args.e, m_args.multicharge)

C18_Witness ==
    /\ m_calls = <<"degree">>
    /\ m_self.cls = "StandardTableauTuple"
    /\ Len(reduced_row_word(m_self.value)) >= 2
    /\ m_out # initial_degree(shape(m_self.value), m_args.e, m_args.multicharge)


(***************************************************************************)
(* C19: in every advance step of the traversal of the standard tableau     *)
(* tuples of a shape, the descent r goes to the place of s, the largest    *)
(* value below r with a larger column index than r in the latest           *)
(* component, not after the one of r, that holds such a value.             *)
(***************************************************************************)
\* the values below r with a larger column index in component c
Candidates(m, tb, cl, r, c) ==
    {tb[i] : i \in {j \in clen(m)[c - 1]..(clen(m)[c] - 1) :
                        tb[j] < r /\ cl[tb[j]] > cl[r]}}

LargestCandidate(m, tb, cl, r) ==
    LET cs == {c \in 1..component(m)[Index(tb, r)] : Candidates(m, tb, cl, r, c) # {}}
    IN  IF cs = {} THEN 0 ELSE SetMax(Candidates(m, tb, cl, r, SetMax(cs)))

LastCandidate(m, tb, cl, r) ==
    LET cs == {c \in 1..component(m)[Index(tb, r)] : Candidates(m, tb, cl, r, c) # {}}
        ps == {j \in DOMAIN tb :
                  /\ CellOfPosition(m, j)[1] = SetMax(cs)
                  /\ tb[j] \in Candidates(m, tb, cl, r, SetMax(cs))}
    IN  IF cs = {} THEN 0
        ELSE tb[CHOOSE j \in ps : \A k \in ps :
                    \/ CellOfPosition(m, k)[2] < CellOfPosition(m, j)[2]
                    \/ /\ CellOfPosition(m, k)[2] = CellOfPosition(m, j)[2]
                       /\ CellOfPosition(m, k)[3] <= CellOfPosition(m, j)[3]]

TabOf(t) == [i \in 0..(Len(entries(t)) - 1) |-> entries(t)[i + 1]]

ColsOf(m, t) ==
    [v \in 0..ShapeSize(m) |->
        IF v = 0 THEN 0
        ELSE LET x == CellOf(t, v) IN x[3] + ColOffset(m, x[1] + 1)]

FirstDescent(cl) ==
    CHOOSE r \in 1..(Cardinality(DOMAIN cl) - 1) :
        /\ cl[r - 1] > cl[r]
        /\ \A q \in 1..(r - 1) : cl[q - 1] <= cl[q]

\* (a[n], ..., a[1]) comes strictly before (b[n], ..., b[1])
WordLess(a, b) ==
    \E v \in 1..(Cardinality(DOMAIN a) - 1) :
        /\ a[v] < b[v]
        /\ \A w \in (v + 1)..(Cardinality(DOMAIN a) - 1) : a[w] = b[w]

\* C20: an advance step keeps cols[v] for v > r, increases cols[r], and so
\* increases the word (cols[n], ..., cols[1])
C20_StepsIncreaseColumnWord ==
    [][(kind = "std" /\ pc \in {"first", "loop"} /\ pc' = "loop") =>
          \E a \in {ColsOf(mu, yielded[Len(yielded)])} :
          \E b \in {ColsOf(mu, yielded'[Len(yielded')])} :
          \E r \in {FirstDescent(a)} :
              /\ Len(yielded') = Len(yielded) + 1
              /\ \A v \in (r + 1)..ShapeSize(mu) : b[v] = a[v]
              /\ b[r] > a[r]
              /\ WordLess(a, b)
              /\ cols' = b]_vars

\* a step with a descent r below n: the values above r have stayed
C20_Witness ==
    /\ kind = "std" /\ pc = "loop" /\ Len(yielded) >= 3
    /\ \E a \in {ColsOf(mu, yielded[Len(yielded) - 1])} :
            /\ FirstDescent(a) < ShapeSize(mu) - 1
            /\ WordLess(a, cols)

(***************************************************************************)
(* C21: when the traversal of the standard shape enumerator stands where   *)
(* cols has no descent (or has returned), the tableau it yielded last is   *)
(* the one last() returns, and that is the tableau with 1..n entered down  *)
(* the columns, the components taken from the last one to the first.       *)
(***************************************************************************)
\* the number of cells in the columns before column j (1-based) of component
\* c, counting the components after c first
CellsBeforeColumn(m, c, j) ==
    SumSeq([k \in 1..(Len(m) - c) |-> SumSeq(m[c + k])])
    + SumSeq([i \in 1..(j - 1) |-> Cardinality({r \in 1..Len(m[c]) : m[c][r] >= i})])

ColumnFilling(m) ==
    [c \in 1..Len(m) |->
        [r \in 1..Len(m[c]) |->
            [j \in 1..m[c][r] |-> CellsBeforeColumn(m, c, j) + r]]]

C21_LastYieldedIsLast ==
    (kind = "std" /\ m_calls = <<"last">>) =>
        /\ m_out.value = ColumnFilling(mu)
        /\ (\/ pc = "done"
            \/ pc \in {"first", "loop"}
               /\ Descent(CurCols) = Cardinality(DOMAIN CurCols))
            => yielded[Len(yielded)] = m_out.value

\* the traversal of a shape with several rows and columns has ended after
\* several steps, and last() has been called
C21_Witness ==
    /\ kind = "std" /\ pc = "done" /\ m_calls = <<"last">>
    /\ Len(yielded) >= 3
    /\ yielded[Len(yielded)] = m_out.value
    /\ \E c \in 1..Len(mu) : Len(mu[c]) >= 2 /\ mu[c][1] >= 2

(***************************************************************************)
(* C22: for every shape of level 2 and every residue sequence of its size, *)
(* the traversal of RowStandardTableauTuples_residue_shape does not fail   *)
(* and every tableau it yields is a row standard tableau tuple of the      *)
(* fixed shape whose residue sequence is the target; stretched to one      *)
(* component per row it is a standard tableau of the stretched shape with  *)
(* the target residues for the charges multicharge[c] - r.                 *)
(***************************************************************************)
\* the tableau tuple y with every row made a component of its own
Stretch(y) ==
    Flatten([c \in 1..Len(y) |-> [r \in 1..Len(y[c]) |-> <<y[c][r]>>]])

RegroupedOfShape(y) ==
    /\ shape(y) = res_shape
    /\ IsRowStandardFilling(y)
    /\ residue_sequence(y, res_e, res_mc) = res_seq
    /\ IsStandardFilling(Stretch(y))
    /\ shape(Stretch(y)) = standard_shape(res_shape)
    /\ residue_sequence(Stretch(y), res_e, charge(res_mc, res_shape)) = res_seq

C22_YieldedRowStandardOfShape ==
    (res_cls = "row_residue_shape" /\ Len(res_mc) >= 2) =>
        /\ res_pc # "ValueError"
        /\ \A i \in 1..Len(res_yielded) : RegroupedOfShape(res_yielded[i])

\* C22, apart from the shapes with one row in all
C22_YieldedRowStandardOfShapeOtherwise ==
    (/\ res_cls = "row_residue_shape" /\ Len(res_mc) >= 2
     /\ Len(StretchedRows(res_shape)) # 1) =>
        /\ res_pc # "ValueError"
        /\ \A i \in 1..Len(res_yielded) : RegroupedOfShape(res_yielded[i])

\* a finished traversal that yielded two tableaux of a shape with a
\* component of two rows
C22_YieldedRowStandardOfShapeOtherwise_Witness ==
    /\ res_cls = "row_residue_shape" /\ Len(res_mc) >= 2
    /\ res_pc = "done"
    /\ Len(res_yielded) >= 2
    /\ \E c \in 1..Len(res_shape) : Len(res_shape[c]) >= 2

(***************************************************************************)
(* C23: no enumerator of a fixed residue sequence yields a tableau twice   *)
(* in one traversal, and for size 0 each yields one tableau only, the      *)
(* empty tableau tuple of its level.                                       *)
(***************************************************************************)
\* the empty tableau (level 1) or the tuple of empty tableaux
EmptyOfLevel(l) == IF l = 1 THEN <<>> ELSE EmptyTableauTuple(l)

NoRepeatsAndOneEmpty ==
    /\ NoRepeats(res_yielded)
    /\ Len(res_seq) = 0 =>
        /\ Len(res_yielded) <= 1
        /\ res_pc = "done" => res_yielded = <<EmptyOfLevel(Len(res_mc))>>

C23_NoTableauTwice == NoRepeatsAndOneEmpty

\* C23, apart from RowStandardTableauTuples_residue_shape of level 1 and
\* size 0
C23_NoTableauTwiceOtherwise ==
    ~(res_cls = "row_residue_shape" /\ Len(res_mc) = 1 /\ Len(res_seq) = 0)
        => NoRepeatsAndOneEmpty

\* a finished traversal of RowStandardTableauTuples_residue through two
\* shapes, and a finished traversal of size 0
C23_NoTableauTwiceOtherwise_Witness ==
    /\ res_cls = "row_residue" /\ res_pc = "done"
    /\ Len(res_yielded) >= 3
    /\ \E i, j \in 1..Len(res_yielded) : shape(res_yielded[i]) # shape(res_yielded[j])

(***************************************************************************)
(* C24: a (row) standard tableau tuple returned by conjugate(), add_entry() *)
(* or restrict() is a member of its own parent: it is (row) standard and,  *)
(* when its parent is the enumerator of a fixed shape, it has that shape.  *)
(***************************************************************************)
\* the last call was one of the three methods and returned a tableau tuple
\* of one of the two classes
ReturnedTableauTuple ==
    /\ Len(m_calls) > 0
    /\ m_calls[Len(m_calls)] \in {"conjugate", "add_entry", "restrict"}
    /\ m_out.cls \in {"StandardTableauTuple", "RowStandardTableauTuple"}

InOwnParent(o) ==
    /\ IF o.cls = "StandardTableauTuple"
       THEN IsStandardFilling(o.value)
       ELSE IsRowStandardFilling(o.value)
    /\ o.parent = "shape" => shape(o.value) = o.shape

C24_ReturnedInOwnParent == ReturnedTableauTuple => InOwnParent(m_out)

\* C24 for restrict(), and for conjugate() and add_entry() on an element of
\* the set of all tableau tuples of its class
C24_ReturnedInOwnParentOtherwise ==
    (/\ ReturnedTableauTuple
     /\ m_calls[Len(m_calls)] = "restrict" \/ m_self.parent = "all")
        => InOwnParent(m_out)

\* restrict(m) below the size on an element of the enumerator of a shape:
\* what is returned has left that enumerator
C24_ReturnedInOwnParentOtherwise_Witness ==
    /\ ReturnedTableauTuple
    /\ m_calls = <<"restrict">>
    /\ m_self.parent = "shape"
    /\ m_args.m >= 1 /\ m_args.m < Len(entries(m_self.value))
    /\ m_out.parent = "all"

(***************************************************************************)
(* C25: for a standard tableau tuple t of size n and a, b >= 0,            *)
(* t.restrict(a) is a standard tableau tuple of the level of t made of     *)
(* exactly the cells of t with an entry at most a, min(a, n) of them, and  *)
(* t.restrict(a).restrict(b) = t.restrict(min(a, b)).                      *)
(***************************************************************************)
EntryAt(t, x) == t[x[1] + 1][x[2] + 1][x[3] + 1]

\* u is t cut down to the cells with an entry at most a
IsRestrictionTo(u, t, a) ==
    /\ Len(u) = Len(t)
    /\ \A k \in 1..Len(u) : \A r \in 1..Len(u[k]) : Len(u[k][r]) > 0
    /\ cells(shape(u)) = {x \in cells(shape(t)) : EntryAt(t, x) <= a}
    /\ \A x \in cells(shape(u)) : EntryAt(u, x) = EntryAt(t, x)
    /\ Len(entries(u)) = SetMin({a, Len(entries(t))})

C25_RestrictCutsAndComposes ==
    (/\ m_self.cls = "StandardTableauTuple"
     /\ Len(m_calls) > 0 /\ m_calls[1] = "restrict") =>
        /\ m_out.cls = "StandardTableauTuple"
        /\ IsStandardFilling(m_out.value)
        /\ IsRestrictionTo(m_out.value, m_self.value,
                           SetMin({m_args.ms[i] : i \in 1..Len(m_args.ms)}))

\* restrict(2) after restrict(3) on a tableau tuple of size 3 with two
\* components that are not empty, and a restriction that keeps t whole
C25_Witness ==
    /\ m_self.cls = "StandardTableauTuple"
    /\ m_calls = <<"restrict", "restrict">>
    /\ m_args.ms = <<MethMaxSize, MethMaxSize - 1>>
    /\ Len(entries(m_self.value)) = MethMaxSize
    /\ Len(entries(m_out.value)) = MethMaxSize - 1
    /\ Cardinality({k \in 1..Len(m_out.value) : Len(m_out.value[k]) > 0}) >= 2

(***************************************************************************)
(* C26: in every state of the traversal of the standard shape enumerator,  *)
(* cols[v] is, for every value v in 1..n, the number of the column of the  *)
(* position that v occupies in tab, the columns being numbered from left   *)
(* to right within each component, from the last component to the first;   *)
(* and mins is as it was initialised.                                      *)
(***************************************************************************)
\* the number of columns of a partition
Width(nu) == IF Len(nu) = 0 THEN 0 ELSE SetMax({nu[r] : r \in 1..Len(nu)})

\* the number of the column of the flat position i
ColumnNumber(m, i) ==
    LET c == component(m)[i]
        \* the position within the component, and the row it falls into
        j == i - clen(m)[c - 1]
        row == SetMax({r \in 0..(Len(m[c]) - 1) : cclen(m)[c - 1][r] <= j})
    IN  (j - cclen(m)[c - 1][row])
        + SumSeq([k \in 1..(Len(m) - c) |-> Width(m[c + k])])

\* the sum of the row and the column of the flat position i
RowPlusColumn(m, i) ==
    LET c == component(m)[i]
        j == i - clen(m)[c - 1]
        row == SetMax({r \in 0..(Len(m[c]) - 1) : cclen(m)[c - 1][r] <= j})
    IN  row + (j - cclen(m)[c - 1][row])

C26_ColsTrackTab ==
    (kind = "std" /\ pc \in {"first", "loop", "done"}) =>
        /\ \A v \in 1..ShapeSize(mu) : CurCols[v] = ColumnNumber(mu, Index(tab, v))
        /\ \A i \in 0..(ShapeSize(mu) - 1) : CurMins[i] = RowPlusColumn(mu, i)

\* after several steps, in a shape with two components that are not empty,
\* a value stands in another component than at the start
C26_Witness ==
    /\ kind = "std" /\ pc = "loop"
    /\ Len(yielded) >= 3
    /\ cols # InitialCols(mu)
    /\ \E v \in 1..ShapeSize(mu) :
            component(mu)[Index(tab, v)] # component(mu)[v - 1]

(***************************************************************************)
(* C27: an advance step of the standard traversal with descent r leaves    *)
(* every value greater than r at its flat position, and the values 1..r    *)
(* occupy after the step the positions they occupied before it, r standing *)
(* where s stood.                                                          *)
(***************************************************************************)
PositionsUpTo(tb, r) == {i \in DOMAIN tb : tb[i] <= r}

C27_StepPermutesUpToDescent ==
    [][(kind = "std" /\ pc \in {"first", "loop"} /\ pc' = "loop") =>
        LET r == Descent(CurCols)
            s == max_row_in_component(mu, tab, CurCols, r)
        IN  /\ \A i \in DOMAIN tab : tab[i] > r => tab'[i] = tab[i]
            /\ PositionsUpTo(tab', r) = PositionsUpTo(tab, r)
            /\ tab'[Index(tab, s)] = r
            /\ {tab'[i] : i \in PositionsUpTo(tab, r) \ {Index(tab, s)}} = 1..(r - 1)]_vars

\* a step with a descent r below n that moved at least three values and
\* left a larger value between them where it was
C27_Witness ==
    /\ kind = "std" /\ pc = "loop" /\ Len(yielded) >= 2
    /\ LET before == TabOf(yielded[Len(yielded) - 1])
           moved == {i \in DOMAIN tab : tab[i] # before[i]}
       IN  /\ Cardinality(moved) >= 3
           /\ \E i \in DOMAIN tab :
                /\ tab[i] = before[i]
                /\ i > SetMin(moved) /\ i < SetMax(moved)

(***************************************************************************)
(* C28: with N the number of tableaux a traversal of the enumerator        *)
(* yields and a, b >= 0, self[a:b] returns the tableaux of index a..b-1 in *)
(* the order of the traversal when b <= N and raises IndexError when       *)
(* b > N; self[a:] returns the tableaux of index a and more for a finite   *)
(* set and raises ValueError for an infinite one; and no tableau beyond    *)
(* the one of index b is asked of the generator.                           *)
(***************************************************************************)
\* all that a traversal of the enumerator of the shape yields
ItemsOf(k, m) ==
    IF k = "std" THEN SingleTraversal(m)
    ELSE [i \in 1..Len(linear_extensions(m)) |->
            tableau_from_list(m, PermutationInverse(linear_extensions(m)[i]))]

C28_SliceIsRangeOfTraversal ==
    (kind \in {"std", "rowstd", "all"} /\ m_calls = <<"__getitem__">>) =>
        /\ m_args.stop # None => Len(yielded) <= m_args.stop + 1
        /\ m_out.res # "loop" =>
            IF kind = "all"
            THEN IF m_args.stop = None THEN m_out.res = "ValueError"
                 ELSE /\ m_out.res = "return"
                      /\ m_out.tabs = SubSeq(AllItems, m_args.start + 1, m_args.stop)
            ELSE \E items \in {ItemsOf(kind, mu)} :
                 IF m_args.stop = None
                 THEN /\ m_out.res = "return"
                      /\ m_out.tabs = SubSeq(items, m_args.start + 1, Len(items))
                 ELSE IF m_args.stop <= Len(items)
                 THEN /\ m_out.res = "return"
                      /\ m_out.tabs = SubSeq(items, m_args.start + 1, m_args.stop)
                 ELSE m_out.res = "IndexError"

\* a slice from inside the traversal to before its end, returned
C28_Witness ==
    /\ kind = "rowstd" /\ m_calls = <<"__getitem__">>
    /\ m_out.res = "return"
    /\ m_args.start = 1 /\ m_args.stop = 3
    /\ Len(m_out.tabs) = 2
    /\ pc # "done"
    /\ Len(ItemsOf(kind, mu)) > 4

\* C29: for a list t of at least two partition-shaped components with integer
\* entries, "t in StandardTableauTuples()" is True exactly when the checked
\* constructor StandardTableauTuple(t) succeeds, which is exactly when the
\* entries are 1..n once each with rows and columns strictly increasing in
\* every component; "t in RowStandardTableauTuples()" is True exactly when
\* RowStandardTableauTuple(t) succeeds.
C29_MembershipIsConstruction ==
    (cons_cls \in {"StandardTableauTuple", "RowStandardTableauTuple"}
        /\ m_calls = <<"__contains__">> /\ cons_result # "pending"
        /\ Len(cons_t) >= 2)
    => /\ m_out.in <=> (cons_result = "ok")
       /\ cons_cls = "StandardTableauTuple"
            => (m_out.in <=> IsStandardFilling(cons_t))
       /\ cons_cls = "RowStandardTableauTuple"
            => (m_out.in <=> IsRowStandardFilling(cons_t))

\* membership and construction have both turned down a list of two components
\* that is row standard with a column that does not increase
C29_Witness ==
    /\ cons_cls = "StandardTableauTuple"
    /\ m_calls = <<"__contains__">>
    /\ cons_result = "tableaux must be column strict"
    /\ Len(cons_t) = 2
    /\ RowStandardTableauTuples_contains(cons_t)
    /\ ~ m_out.in

\* the number of k-segments: the pairs of a row and a value k of that row
\* other than the index of the row
SegPrime(T) ==
    Cardinality(UNION {{<<r, T[r][c]>> : c \in {c \in 1..Len(T[r]) : T[r][c] # r}} :
                            r \in 1..Len(T)})

\* the rows that contain the bar of their index
RowsWithOwnBar(T) == {r \in 1..Len(T) : -r \in Range(T[r])}

\* d(T): the rows with the bar of their index and neither an n-box nor a bar
\* n-box
SegD(T, n) ==
    Cardinality({r \in RowsWithOwnBar(T) : n \notin Range(T[r]) /\ -n \notin Range(T[r])})

\* C30: for every tableau T of the crystal of type D_n, seg(T) equals
\* seg'(T) + d(T), seg'(T) the number of k-segments of T and d(T) the number
\* of rows that contain the bar of their index and neither an n-box nor a bar
\* n-box.
C30_SegIsSegPrimePlusD ==
    (m_calls = <<"seg">>) => m_out = SegPrime(m_self.tab) + SegD(m_self.tab, m_self.n)

\* C30, as far as it holds: seg(T) is seg'(T), and one more when some row
\* contains the bar of its index, whatever else that row contains and however
\* many such rows there are.
C30_SegAddsAtMostOne ==
    (m_calls = <<"seg">>)
    => m_out = SegPrime(m_self.tab)
                + (IF RowsWithOwnBar(m_self.tab) = {} THEN 0 ELSE 1)

\* seg has been taken of a tableau with exactly one row that has the bar of
\* its index, without n-box or bar n-box, and a segment in another row
C30_SegAddsAtMostOne_Witness ==
    /\ m_calls = <<"seg">>
    /\ Cardinality(RowsWithOwnBar(m_self.tab)) = 1
    /\ SegD(m_self.tab, m_self.n) = 1
    /\ SegPrime(m_self.tab) >= 2
    /\ m_out = SegPrime(m_self.tab) + 1

====
